---- MODULE Spec2Model ----
(***************************************************************************)
(* gomodproxy: the snapshot stores (pkg/store) and the fetch coordinator   *)
(* (pkg/api) as state machines.                                            *)
(*                                                                         *)
(*   SpecMem  the in-memory LRU store driven by arbitrary Put/Get calls    *)
(*   SpecLRU  the same store with a non-negative limit, with the order of  *)
(*            uses recorded next to it                                     *)
(*   SpecApi  api.module over a list of memory and disk stores and a VCS   *)
(***************************************************************************)
EXTENDS Integers, Sequences, FiniteSets, TLC

(***************************************************************************)
(* Bounds of the model.                                                    *)
(***************************************************************************)
\* longest Data ([]byte) of a snapshot handed to Put
MaxDataLen == 2
\* largest non-negative cache limit a store is constructed with
MaxLimit == 3
\* most stores an api is configured with
MaxStores == 2

(***************************************************************************)
(* Values.                                                                 *)
(***************************************************************************)
\* the nil pointer of *lruItem
NIL == 0

\* byte values a snapshot's Data is made of
Bytes == {0}

\* (module, version) pairs used in calls: two versions of one module and a
\* second module sharing a version, so both halves of the key comparison matter
KeySeq == <<(<<"foo", "v1.0.0">>), (<<"foo", "v1.1.0">>), (<<"bar", "v1.0.0">>)>>

Keys == {KeySeq[i] : i \in 1 .. Len(KeySeq)}

\* time.Time: an instant (sec) read in a zone (off, the offset from UTC)
Time(sec, off) == [sec |-> sec, off |-> off]

\* time.Time{}
ZeroTime == Time(0, 0)

\* commit times carried by snapshots
Times == {Time(1, 0), Time(2, 1)}

\* all []byte values of length 0..n over Bytes
RECURSIVE BytesUpTo(_)
BytesUpTo(n) ==
    IF n = 0 THEN {<<>>}
    ELSE LET shorter == BytesUpTo(n - 1)
         IN  shorter \cup {Append(d, b) : d \in {s \in shorter : Len(s) = n - 1}, b \in Bytes}

DataValues == BytesUpTo(MaxDataLen)

\* store.Snapshot
Snapshot(module, version, timestamp, data) ==
    [Module |-> module, Version |-> version, Timestamp |-> timestamp, Data |-> data]

\* Snapshot{} : the zero value returned next to an error
ZeroSnapshot == Snapshot("", "", ZeroTime, <<>>)

\* Snapshot.Key
Key(s) == s.Module \o "@" \o s.Version

\* the (Module, Version) pair memory.lookup compares
pair(s) == <<s.Module, s.Version>>

\* the snapshots callers hand to Put
Snapshots == {Snapshot(k[1], k[2], t, d) : k \in Keys, t \in Times, d \in DataValues}

\* limits a memory store is constructed with; negative disables eviction
Limits == (-1) .. MaxLimit

VARIABLES
    m,          \* the memory store: limit, size, head, tail and the lruItems
    ret,        \* the last completed call on m: its arguments, the head it
                \* found and its results
    inserted,   \* history: key held -> snapshot of the Put that found the key absent
    uses,       \* history (SpecLRU): keys held, most recently used first, a use
                \* being an insertion or a Get hit
    stores,     \* api.stores: the configured stores in order, with their contents
    req,        \* the requests in api.module: position, locals, calls made, result
    remote,     \* what the VCS answers: module@version -> commit (time, archive)
    semc,       \* api.semc: the number of tokens in the channel
    workers,    \* the capacity of api.semc
    dir,        \* the directory of a disk store: file name -> contents
    put,        \* the disk.Put calls running on dir: position and snapshot
    arg,        \* the input of the function under study
    res         \* what the function returned for arg

memVars == <<m, ret, inserted, uses>>

apiVars == <<stores, req, remote>>

gateVars == <<semc, workers>>

diskVars == <<dir, put>>

funVars == <<arg, res>>

vars == <<m, ret, inserted, uses, stores, req, remote, semc, workers, dir, put, arg, res>>

\* the variables a specification does not use keep their first value
gateUnused == semc = 0 /\ workers = 0

diskUnused == dir = <<>> /\ put = <<>>

funUnused == arg = <<>> /\ res = <<>>

(***************************************************************************)
(* pkg/store/mem.go                                                        *)
(***************************************************************************)
\* Memory(log, limit): &memory{limit: limit}
Memory(limit) ==
    [limit |-> limit, size |-> 0, head |-> NIL, tail |-> NIL,
     items |-> [n \in {} |-> ZeroSnapshot]]

\* the lruItem allocated by Put: &lruItem{Snapshot: snapshot, next: m.head}
lruItem(snapshot, next) ==
    [Module |-> snapshot.Module, Version |-> snapshot.Version,
     Timestamp |-> snapshot.Timestamp, Data |-> snapshot.Data,
     prev |-> NIL, next |-> next]

\* item.Snapshot
SnapshotOf(item) == Snapshot(item.Module, item.Version, item.Timestamp, item.Data)

\* address of a newly allocated lruItem: one no live item has. Addresses are
\* not observable, so the allocator is modelled as keeping one address per
\* key and handing out a higher one only if that address is still live.
NewItem(mem, snapshot) ==
    LET a == CHOOSE i \in 1 .. Len(KeySeq) : KeySeq[i] = pair(snapshot)
        top == CHOOSE n \in DOMAIN mem.items \cup {Len(KeySeq)} :
                   \A k \in DOMAIN mem.items \cup {Len(KeySeq)} : k <= n
    IN  IF a \notin DOMAIN mem.items THEN a ELSE top + 1

\* the heap with item n unreachable (collected)
Free(items, n) == [k \in DOMAIN items \ {n} |-> items[k]]

\* insert with the size updated after the early return of the empty case
insert_SizeAfterReturn(mem, n, item) ==
    LET heap == [k \in DOMAIN mem.items \cup {n} |->
                    IF k = n THEN item ELSE mem.items[k]]
    IN  IF mem.head = NIL
        THEN [mem EXCEPT !.head = n, !.tail = n, !.items = heap]
        ELSE [mem EXCEPT !.size = mem.size + Len(item.Data), !.head = n,
                         !.items = [heap EXCEPT ![n].next = mem.head,
                                                ![mem.head].prev = n]]

\* insert with the length of the data counted twice
insert_DoubleSize(mem, n, item) ==
    LET size == mem.size + 2 * Len(item.Data)
        heap == [k \in DOMAIN mem.items \cup {n} |->
                    IF k = n THEN item ELSE mem.items[k]]
    IN  IF mem.head = NIL
        THEN [mem EXCEPT !.size = size, !.head = n, !.tail = n, !.items = heap]
        ELSE [mem EXCEPT !.size = size, !.head = n,
                         !.items = [heap EXCEPT ![n].next = mem.head,
                                                ![mem.head].prev = n]]

\* memory.insert
insert(mem, n, item) ==
    LET size == mem.size + Len(item.Data)
        heap == [k \in DOMAIN mem.items \cup {n} |->
                    IF k = n THEN item ELSE mem.items[k]]
    IN  IF mem.head = NIL
        THEN [mem EXCEPT !.size = size, !.head = n, !.tail = n, !.items = heap]
        ELSE [mem EXCEPT !.size = size, !.head = n,
                         !.items = [heap EXCEPT ![n].next = mem.head,
                                                ![mem.head].prev = n]]

\* update that also returns early for the tail
update_SkipTail(mem, n) ==
    LET item == mem.items[n]
    IN  IF item.prev = NIL \/ item.next = NIL
        THEN mem
        ELSE LET i1 == [mem.items EXCEPT ![item.prev].next = item.next]
                 i2 == [i1 EXCEPT ![item.next].prev = item.prev]
                 i3 == [i2 EXCEPT ![n].prev = NIL, ![n].next = mem.head]
                 i4 == [i3 EXCEPT ![mem.head].prev = n]
             IN  [mem EXCEPT !.items = i4, !.head = n]

\* update that leaves m.tail alone when it moves the tail
update_KeepTail(mem, n) ==
    LET item == mem.items[n]
    IN  IF item.prev = NIL
        THEN mem
        ELSE LET i1 == [mem.items EXCEPT ![item.prev].next = item.next]
                 i2 == IF item.next = NIL
                       THEN i1
                       ELSE [i1 EXCEPT ![item.next].prev = item.prev]
                 i3 == [i2 EXCEPT ![n].prev = NIL, ![n].next = mem.head]
                 i4 == [i3 EXCEPT ![mem.head].prev = n]
             IN  [mem EXCEPT !.items = i4, !.head = n]

\* memory.update
update(mem, n) ==
    LET item == mem.items[n]
    IN  IF item.prev = NIL
        THEN mem
        ELSE LET i1 == [mem.items EXCEPT ![item.prev].next = item.next]
                 tail == IF item.next = NIL THEN item.prev ELSE mem.tail
                 i2 == IF item.next = NIL
                       THEN i1
                       ELSE [i1 EXCEPT ![item.next].prev = item.prev]
                 i3 == [i2 EXCEPT ![n].prev = NIL, ![n].next = mem.head]
                 i4 == [i3 EXCEPT ![mem.head].prev = n]
             IN  [mem EXCEPT !.items = i4, !.head = n, !.tail = tail]

\* memory.evict
evict(mem) ==
    LET t == mem.tail
        size == mem.size - Len(mem.items[t].Data)
    IN  IF mem.items[t].prev = NIL
        THEN [mem EXCEPT !.size = size, !.head = NIL, !.tail = NIL,
                         !.items = Free(mem.items, t)]
        ELSE [mem EXCEPT !.size = size, !.tail = mem.items[t].prev,
                         !.items = Free([mem.items EXCEPT ![mem.items[t].prev].next = NIL], t)]

\* a scan that compares the Module only
RECURSIVE find_ModuleOnly(_, _, _, _)
find_ModuleOnly(mem, n, module, version) ==
    IF n = NIL THEN NIL
    ELSE IF mem.items[n].Module = module THEN n
    ELSE find_ModuleOnly(mem, mem.items[n].next, module, version)

\* the scan of memory.lookup: the first item from n on with the key, or NIL
RECURSIVE find(_, _, _, _)
find(mem, n, module, version) ==
    IF n = NIL THEN NIL
    ELSE IF mem.items[n].Module = module /\ mem.items[n].Version = version THEN n
    ELSE find(mem, mem.items[n].next, module, version)

\* memory.lookup
lookup(mem, module, version) ==
    LET n == find(mem, mem.head, module, version)
    IN  IF n # NIL
        THEN [mem |-> update(mem, n), snapshot |-> SnapshotOf(mem.items[n]), err |-> FALSE]
        ELSE [mem |-> mem, snapshot |-> ZeroSnapshot, err |-> TRUE]

\* an eviction loop that keeps the last item of the list
RECURSIVE evictLoop_KeepLast(_)
evictLoop_KeepLast(mem) ==
    IF mem.limit >= 0 /\ mem.size > mem.limit /\ mem.head # mem.tail
    THEN evictLoop_KeepLast(evict(mem))
    ELSE mem

\* an eviction loop that takes a negative limit for 0
RECURSIVE evictLoop_ClampLimit(_)
evictLoop_ClampLimit(mem) ==
    IF mem.size > (IF mem.limit < 0 THEN 0 ELSE mem.limit)
    THEN evictLoop_ClampLimit(evict(mem))
    ELSE mem

\* the eviction loop of memory.Put
RECURSIVE evictLoop(_)
evictLoop(mem) ==
    IF mem.limit >= 0 /\ mem.size > mem.limit THEN evictLoop(evict(mem)) ELSE mem

\* a Put that rejects a snapshot whose data is longer than the limit
memory_Put_RejectOutsized(mem, snapshot) ==
    LET l == lookup(mem, snapshot.Module, snapshot.Version)
    IN  IF ~l.err
        THEN [mem |-> l.mem, err |-> FALSE]
        ELSE IF mem.limit >= 0 /\ Len(snapshot.Data) > mem.limit
        THEN [mem |-> mem, err |-> TRUE]
        ELSE [mem |-> evictLoop(insert(mem, NewItem(mem, snapshot), lruItem(snapshot, mem.head))),
              err |-> FALSE]

\* memory.Put
memory_Put(mem, snapshot) ==
    LET l == lookup(mem, snapshot.Module, snapshot.Version)
    IN  IF ~l.err
        THEN [mem |-> l.mem, err |-> FALSE]
        ELSE [mem |-> evictLoop(insert(mem, NewItem(mem, snapshot), lruItem(snapshot, mem.head))),
              err |-> FALSE]

\* memory.Get
memory_Get(mem, module, version) == lookup(mem, module, version)

\* update(item) reads m.head.prev while m.head is nil
updateNil(mem, n) == mem.items[n].prev # NIL /\ mem.head = NIL

\* the eviction loop of Put calls evict, which reads m.tail.Data, while
\* m.tail is nil
RECURSIVE evictNil(_)
evictNil(mem) ==
    IF mem.limit >= 0 /\ mem.size > mem.limit
    THEN mem.tail = NIL \/ evictNil(evict(mem))
    ELSE FALSE

\* lookup(module, version) reads through a nil pointer
lookupNil(mem, module, version) ==
    LET n == find(mem, mem.head, module, version)
    IN  n # NIL /\ updateNil(mem, n)

\* Put(ctx, snapshot) reads through a nil pointer
putNil(mem, snapshot) ==
    IF find(mem, mem.head, snapshot.Module, snapshot.Version) # NIL
    THEN lookupNil(mem, snapshot.Module, snapshot.Version)
    ELSE evictNil(insert(mem, NewItem(mem, snapshot), lruItem(snapshot, mem.head)))

(***************************************************************************)
(* Views of the list.                                                      *)
(***************************************************************************)
\* the items from n on, following next
RECURSIVE chain(_, _)
chain(mem, n) == IF n = NIL THEN <<>> ELSE <<n>> \o chain(mem, mem.items[n].next)

\* the list from head to tail
nodes(mem) == chain(mem, mem.head)

\* the keys of the list from head to tail
keysOf(mem) == [i \in 1 .. Len(nodes(mem)) |-> pair(mem.items[nodes(mem)[i]])]

Range(s) == {s[i] : i \in 1 .. Len(s)}

RECURSIVE SumLen(_, _)
SumLen(mem, s) == IF s = <<>> THEN 0 ELSE Len(mem.items[Head(s)].Data) + SumLen(mem, Tail(s))

\* s without the elements outside keep, order kept
RECURSIVE Filter(_, _)
Filter(s, keep) ==
    IF s = <<>> THEN <<>>
    ELSE IF Head(s) \in keep THEN <<Head(s)>> \o Filter(Tail(s), keep)
    ELSE Filter(Tail(s), keep)

(***************************************************************************)
(* SpecMem: a memory store under arbitrary Put and Get calls.              *)
(***************************************************************************)
NoCall ==
    [op |-> "none", arg |-> ZeroSnapshot, head |-> NIL, snapshot |-> ZeroSnapshot, err |-> FALSE]

InitMem ==
    /\ m \in {Memory(limit) : limit \in Limits}
    /\ ret = NoCall
    /\ inserted = [k \in {} |-> ZeroSnapshot]
    /\ uses = <<>>
    /\ stores = <<>>
    /\ req = <<>>
    /\ remote = <<>>
    /\ gateUnused /\ diskUnused /\ funUnused

\* a caller runs m.Put(ctx, snapshot)
PutCall(snapshot) ==
    LET r == memory_Put(m, snapshot)
        absent == pair(snapshot) \notin Range(keysOf(m))
    IN  /\ m' = r.mem
        /\ ret' = [op |-> "Put", arg |-> snapshot, head |-> m.head,
                   snapshot |-> ZeroSnapshot, err |-> r.err]
        /\ inserted' = [k \in (DOMAIN inserted \cup {pair(snapshot)}) \cap Range(keysOf(r.mem)) |->
                            IF k = pair(snapshot) /\ absent THEN snapshot ELSE inserted[k]]

\* a caller runs m.Get(ctx, module, version)
GetCall(module, version) ==
    LET r == memory_Get(m, module, version)
    IN  /\ m' = r.mem
        /\ ret' = [op |-> "Get", arg |-> Snapshot(module, version, ZeroTime, <<>>), head |-> m.head,
                   snapshot |-> r.snapshot, err |-> r.err]
        /\ inserted' = inserted

MemPut(snapshot) == PutCall(snapshot) /\ UNCHANGED uses /\ UNCHANGED <<apiVars, gateVars, diskVars, funVars>>

MemGet(module, version) == GetCall(module, version) /\ UNCHANGED uses /\ UNCHANGED <<apiVars, gateVars, diskVars, funVars>>

NextMem ==
    \/ \E snapshot \in Snapshots : MemPut(snapshot)
    \/ \E k \in Keys : MemGet(k[1], k[2])

SpecMem == InitMem /\ [][NextMem]_vars

(***************************************************************************)
(* SpecLRU: a memory store with a limit >= 0; uses records the order of    *)
(* uses of the keys held, where a use is an insertion (a Put of a key the  *)
(* store does not hold) or a Get hit.                                      *)
(***************************************************************************)
InitLRU ==
    /\ m \in {Memory(limit) : limit \in 0 .. MaxLimit}
    /\ ret = NoCall
    /\ inserted = [k \in {} |-> ZeroSnapshot]
    /\ uses = <<>>
    /\ stores = <<>>
    /\ req = <<>>
    /\ remote = <<>>
    /\ gateUnused /\ diskUnused /\ funUnused

\* s with k moved (or put) in front
Front(s, k) == <<k>> \o Filter(s, Range(s) \ {k})

LRUPut(snapshot) ==
    /\ PutCall(snapshot)
    /\ uses' = Filter(IF pair(snapshot) \in Range(uses) THEN uses ELSE Front(uses, pair(snapshot)),
                      Range(keysOf(m')))
    /\ UNCHANGED <<apiVars, gateVars, diskVars, funVars>>

LRUGet(module, version) ==
    /\ GetCall(module, version)
    /\ uses' = IF ret'.err THEN uses ELSE Front(uses, <<module, version>>)
    /\ UNCHANGED <<apiVars, gateVars, diskVars, funVars>>

\* eviction does not look at timestamps: one commit time is enough here
LRUSnapshots == {s \in Snapshots : s.Timestamp = Time(1, 0)}

NextLRU ==
    \/ \E snapshot \in LRUSnapshots : LRUPut(snapshot)
    \/ \E k \in Keys : LRUGet(k[1], k[2])

SpecLRU == InitLRU /\ [][NextLRU]_vars

(***************************************************************************)
(* Properties of the memory store.                                         *)
(***************************************************************************)
\* the item of the list that holds key k
itemOf(mem, k) == mem.items[CHOOSE n \in Range(nodes(mem)) : pair(mem.items[n]) = k]

\* the keys the list holds
held(mem) == Range(keysOf(mem))

\* position of k in the sequence s
Pos(s, k) == CHOOSE i \in 1 .. Len(s) : s[i] = k

\* the step is a Put of a key the store does not hold
IsInsert == ret'.op = "Put" /\ pair(ret'.arg) \notin held(m)

\* the step is a Put of a key the store holds
IsDuplicatePut == ret'.op = "Put" /\ pair(ret'.arg) \in held(m)

\* the step is a Get that hits
IsHit == ret'.op = "Get" /\ ~ret'.err

\* C1: with limit >= 0, a Put of a new key evicts only least recently used
\* entries (a use is an insertion or a Get hit) and stops as soon as
\* size <= limit: every evicted key was used less recently than every key
\* kept, and the last eviction was needed.
C1_EvictsLeastRecentlyUsed ==
    [][IsInsert =>
        LET k == pair(ret'.arg)
            order == <<k>> \o uses
            kept == held(m')
            evicted == Range(order) \ kept
            len(e) == IF e = k THEN Len(ret'.arg.Data) ELSE Len(itemOf(m, e).Data)
        IN  /\ m'.size <= m.limit
            /\ \A e \in evicted : \A s \in kept : Pos(order, s) < Pos(order, e)
            /\ \A e \in evicted :
                   (\A o \in evicted : Pos(order, e) <= Pos(order, o))
                       => m'.size + len(e) > m.limit]_vars

\* C2: the tracked size is the sum of len(Data) over the items of the list.
C2_SizeIsSumOfData == m.size = SumLen(m, nodes(m))

\* a Put inserted an item and evicted every item it found
C2_Witness ==
    /\ ret.op = "Put"
    /\ ret.head # NIL
    /\ ret.head \notin DOMAIN m.items
    /\ nodes(m) # <<>>
    /\ pair(m.items[m.head]) = pair(ret.arg)
    /\ m.size = Len(ret.arg.Data)
    /\ m.size > 0

\* C3: with limit >= 0, after every completed call size <= limit or the list
\* is empty.
C3_WithinLimit == m.limit >= 0 => (m.size <= m.limit \/ m.head = NIL)

C3_Witness ==
    /\ m.limit >= 0
    /\ ret.op = "Put"
    /\ Len(ret.arg.Data) > m.limit
    /\ m.head = NIL
    /\ m.size = 0

\* C4: a Get that succeeds returns a snapshot with the Module and Version asked
\* for and the snapshot of the Put that inserted the key; a Get fails exactly
\* when no item of the list has the key.
C4_GetReturnsInserted ==
    ret.op = "Get" =>
        LET k == pair(ret.arg)
        IN  /\ ret.err <=> k \notin held(m)
            /\ ~ret.err =>
                   /\ ret.snapshot.Module = ret.arg.Module
                   /\ ret.snapshot.Version = ret.arg.Version
                   /\ k \in DOMAIN inserted
                   /\ ret.snapshot = inserted[k]

C4_Witness ==
    /\ ret.op = "Get"
    /\ ~ret.err
    /\ ret.snapshot.Data # <<>>
    /\ \E k \in held(m) :
          /\ k[1] = ret.arg.Module
          /\ k[2] # ret.arg.Version
          /\ inserted[k] # [ret.snapshot EXCEPT !.Version = k[2]]

\* C5: a Get that hits moves the hit item to the head; the item that was head
\* becomes its successor; the order of the other items is unchanged.
C5_HitMovesToHead ==
    [][IsHit =>
        LET n == CHOOSE x \in Range(nodes(m)) : pair(m.items[x]) = pair(ret'.arg)
        IN  /\ m'.head = n
            /\ nodes(m') = <<n>> \o Filter(nodes(m), Range(nodes(m)) \ {n})
            /\ m.head # n =>
                   /\ m'.items[n].next = m.head
                   /\ m'.items[m.head].prev = n]_vars

\* a Get hit an item of a list of three that was not the head
C5_Witness ==
    /\ ret.op = "Get"
    /\ ~ret.err
    /\ Len(nodes(m)) = 3
    /\ pair(m.items[m.head]) = pair(ret.arg)
    /\ ret.head # m.head
    /\ m.items[m.head].next = ret.head

\* C6: a Put of a key the store holds changes nothing: data, timestamp, size
\* and the order of the list stay as they were.
C6_DuplicatePutIsNoOp == [][IsDuplicatePut => m' = m]_vars

\* C7: with a negative limit nothing is evicted: every key ever Put stays
\* held with the data of its first Put, and a Get of it returns that data.
C7_NegativeLimitKeepsAll ==
    [][m.limit < 0 =>
        /\ \A k \in DOMAIN inserted : k \in DOMAIN inserted' /\ inserted'[k] = inserted[k]
        /\ ret'.op = "Put" => pair(ret'.arg) \in DOMAIN inserted'
        /\ \A k \in DOMAIN inserted' :
               k \in held(m') /\ SnapshotOf(itemOf(m', k)) = inserted'[k]
        /\ (ret'.op = "Get" /\ pair(ret'.arg) \in DOMAIN inserted) =>
               ~ret'.err /\ ret'.snapshot.Data = inserted[pair(ret'.arg)].Data]_vars

C7_Witness ==
    /\ m.limit < 0
    /\ DOMAIN inserted = Keys
    /\ m.size > MaxLimit
    /\ ret.op = "Get"
    /\ ~ret.err
    /\ ret.snapshot.Data = <<>>
    /\ ret.head # m.head

(***************************************************************************)
(* pkg/store/disk.go                                                       *)
(***************************************************************************)
\* Time.MarshalText: the RFC 3339 text, i.e. the clock reading in the time's
\* zone followed by the zone's offset
MarshalText(t) == <<t.sec + t.off, t.off>>

\* Time.UnmarshalText
UnmarshalText(text) ==
    IF Len(text) = 2
    THEN [t |-> Time(text[1] - text[2], text[2]), err |-> FALSE]
    ELSE [t |-> ZeroTime, err |-> TRUE]

\* the filesystem call of disk.Put that fails, if any
IOFailures == {"none", "MkdirAll", "WriteTime", "WriteZip"}

\* ioutil.WriteFile
WriteFile(files, name, data) ==
    [f \in DOMAIN files \cup {name} |-> IF f = name THEN data ELSE files[f]]

\* disk.Put
disk_Put(files, snapshot, fail) ==
    LET timeFile == Key(snapshot) \o ".time"
        zipFile == Key(snapshot) \o ".zip"
        t == MarshalText(snapshot.Timestamp)
    IN  IF fail = "MkdirAll" THEN [files |-> files, err |-> TRUE]
        ELSE IF fail = "WriteTime" THEN [files |-> files, err |-> TRUE]
        ELSE IF fail = "WriteZip"
        THEN [files |-> WriteFile(files, timeFile, t), err |-> TRUE]
        ELSE [files |-> WriteFile(WriteFile(files, timeFile, t), zipFile, snapshot.Data),
              err |-> FALSE]

\* disk.Get
disk_Get(files, module, version) ==
    LET s == Snapshot(module, version, ZeroTime, <<>>)
        timeFile == Key(s) \o ".time"
        zipFile == Key(s) \o ".zip"
    IN  IF timeFile \notin DOMAIN files
        THEN [snapshot |-> ZeroSnapshot, err |-> TRUE]
        ELSE LET u == UnmarshalText(files[timeFile])
             IN  IF u.err THEN [snapshot |-> ZeroSnapshot, err |-> TRUE]
                 ELSE IF zipFile \notin DOMAIN files
                 THEN [snapshot |-> [s EXCEPT !.Timestamp = u.t], err |-> TRUE]
                 ELSE [snapshot |-> [s EXCEPT !.Timestamp = u.t, !.Data = files[zipFile]],
                       err |-> FALSE]

\* os.Remove of a file that exists
Remove(files, name) == [f \in DOMAIN files \ {name} |-> files[f]]

\* the os.Remove of disk.Del that fails although the file exists, if any
RemoveFailures == {"none", "RemoveTime", "RemoveZip"}

\* a disk.Del that returns the error of the second os.Remove only
disk_Del_LastError(files, module, version, fail) ==
    LET s == Snapshot(module, version, ZeroTime, <<>>)
        timeFile == Key(s) \o ".time"
        zipFile == Key(s) \o ".zip"
        f1 == IF fail = "RemoveTime" THEN files ELSE Remove(files, timeFile)
    IN  IF zipFile \notin DOMAIN f1 \/ fail = "RemoveZip"
        THEN [files |-> f1, err |-> TRUE]
        ELSE [files |-> Remove(f1, zipFile), err |-> FALSE]

\* disk.Del
disk_Del(files, module, version, fail) ==
    LET s == Snapshot(module, version, ZeroTime, <<>>)
        timeFile == Key(s) \o ".time"
        zipFile == Key(s) \o ".zip"
    IN  IF timeFile \notin DOMAIN files \/ fail = "RemoveTime"
        THEN [files |-> files, err |-> TRUE]
        ELSE IF zipFile \notin DOMAIN files \/ fail = "RemoveZip"
        THEN [files |-> Remove(files, timeFile), err |-> TRUE]
        ELSE [files |-> Remove(Remove(files, timeFile), zipFile), err |-> FALSE]

(***************************************************************************)
(* store.Store: the stores an api is configured with.                      *)
(***************************************************************************)
NoFiles == [f \in {} |-> <<>>]

\* api.Memory(log, limit): store.Memory(log, limit)
MemoryStore(limit) == [kind |-> "memory", mem |-> Memory(limit), files |-> NoFiles]

\* api.CacheDir(dir): store.Disk(dir), each with a directory of its own
DiskStore == [kind |-> "disk", mem |-> Memory(0), files |-> NoFiles]

\* Store.Get
Store_Get(st, module, version) ==
    IF st.kind = "memory"
    THEN LET r == memory_Get(st.mem, module, version)
         IN  [store |-> [st EXCEPT !.mem = r.mem], snapshot |-> r.snapshot, err |-> r.err]
    ELSE LET r == disk_Get(st.files, module, version)
         IN  [store |-> st, snapshot |-> r.snapshot, err |-> r.err]

\* Store.Put
Store_Put(st, snapshot, fail) ==
    IF st.kind = "memory"
    THEN LET r == memory_Put(st.mem, snapshot)
         IN  [store |-> [st EXCEPT !.mem = r.mem], err |-> r.err]
    ELSE LET r == disk_Put(st.files, snapshot, fail)
         IN  [store |-> [st EXCEPT !.files = r.files], err |-> r.err]

\* the sequences of length 0..n over S
RECURSIVE SeqsUpTo(_, _)
SeqsUpTo(S, n) ==
    IF n = 0 THEN {<<>>}
    ELSE LET shorter == SeqsUpTo(S, n - 1)
         IN  shorter \cup {Append(q, x) : q \in {t \in shorter : Len(t) = n - 1}, x \in S}

\* the option lists handed to api.New
Configs == SeqsUpTo({MemoryStore(1), MemoryStore(MaxLimit), DiskStore}, MaxStores)

(***************************************************************************)
(* vcs.VCS as api.module sees it.                                          *)
(***************************************************************************)
\* the (module, version) pairs requested
ApiKeys == {KeySeq[1], KeySeq[3]}

\* those of them the remote repositories ever have a commit for; the other
\* module does not exist upstream
Hosted == {KeySeq[1]}

\* a commit: its committer time and the archive built from its tree
Commit(time, data) == [time |-> time, data |-> data]

NoCommit == Commit(ZeroTime, <<>>)

Commits == {Commit(Time(1, 0), <<0>>), Commit(Time(2, 1), <<0, 0>>)}

\* VCS.Timestamp
Timestamp(module, version) ==
    LET c == remote[<<module, version>>]
    IN  IF c = NoCommit THEN [t |-> ZeroTime, err |-> TRUE] ELSE [t |-> c.time, err |-> FALSE]

\* VCS.Zip: a reader over the archive held in memory
Zip(module, version) ==
    LET c == remote[<<module, version>>]
    IN  IF c = NoCommit THEN [zr |-> <<>>, err |-> TRUE] ELSE [zr |-> c.data, err |-> FALSE]

\* VCS.List: the versions the remote has of module, or an error if none
List(module) ==
    LET has == SelectSeq(KeySeq, LAMBDA k : /\ k \in ApiKeys
                                            /\ k[1] = module
                                            /\ remote[k] # NoCommit)
    IN  [list |-> [j \in 1 .. Len(has) |-> has[j][2]], err |-> has = <<>>]

\* io.Copy(b, zr): the bytes of the reader, or the error of a Read of it
Copy(zr, fail) == IF fail THEN [b |-> <<>>, err |-> TRUE] ELSE [b |-> zr, err |-> FALSE]

(***************************************************************************)
(* pkg/api/api.go: api.module                                              *)
(***************************************************************************)
\* the handlers that call api.module, one call after the other
Requests == {1}

\* one call made by a request, with what went in or came out
Call(call, store, err, timestamp, data) ==
    [call |-> call, store |-> store, err |-> err, timestamp |-> timestamp, data |-> data]

\* what api.module returned
Return(data, timestamp, err) == [data |-> data, timestamp |-> timestamp, err |-> err]

\* what is remembered of the call before this one: what it asked for, whether
\* it fetched from the VCS and had every Put succeed, and what it returned
Previous(module, version, filled, out) ==
    [module |-> module, version |-> version, filled |-> filled, out |-> out]

NoPrevious == Previous("", "", FALSE, Return(<<>>, ZeroTime, FALSE))

Idle ==
    [pc |-> "idle", module |-> "", version |-> "", i |-> 0, timestamp |-> ZeroTime,
     b |-> <<>>, calls |-> <<>>, out |-> Return(<<>>, ZeroTime, FALSE),
     prev |-> NoPrevious, list |-> <<>>]

InitApi ==
    /\ stores \in Configs
    /\ req = [r \in Requests |-> Idle]
    /\ remote \in {f \in [ApiKeys -> Commits \cup {NoCommit}] :
                        \A k \in ApiKeys \ Hosted : f[k] = NoCommit}
    /\ m = Memory(0)
    /\ ret = NoCall
    /\ inserted = [k \in {} |-> ZeroSnapshot]
    /\ uses = <<>>
    /\ gateUnused /\ diskUnused /\ funUnused

\* a handler calls api.module(ctx, module, version)
module_Call(r, module, version) ==
    /\ req[r].pc \in {"idle", "done"}
    /\ LET cs == req[r].calls
           filled == /\ req[r].pc = "done"
                     /\ ~req[r].out.err
                     /\ \E j \in 1 .. Len(cs) : cs[j].call = "Put"
                     /\ \A j \in 1 .. Len(cs) : cs[j].call = "Put" => ~cs[j].err
       IN  req' = [req EXCEPT ![r] =
               [Idle EXCEPT !.pc = IF Len(stores) = 0 THEN "timestamp" ELSE "get",
                            !.module = module, !.version = version, !.i = 1,
                            !.prev = Previous(req[r].module, req[r].version, filled,
                                              req[r].out)]]
    /\ UNCHANGED <<stores, remote>>
    /\ UNCHANGED <<memVars, gateVars, diskVars, funVars>>

\* the loop over api.stores without the return on a hit: the last hit wins
module_Get_NoReturn(r) ==
    /\ req[r].pc = "get"
    /\ LET i == req[r].i
           g == Store_Get(stores[i], req[r].module, req[r].version)
           calls == Append(req[r].calls,
                           Call("Get", i, g.err, g.snapshot.Timestamp, g.snapshot.Data))
           hit == \E j \in 1 .. Len(calls) : ~calls[j].err
           out == IF g.err THEN req[r].out
                  ELSE Return(g.snapshot.Data, g.snapshot.Timestamp, FALSE)
       IN  /\ stores' = [stores EXCEPT ![i] = g.store]
           /\ req' = [req EXCEPT ![r] =
                  [@ EXCEPT !.pc = IF i < Len(stores) THEN "get"
                                   ELSE IF hit THEN "done" ELSE "timestamp",
                            !.i = i + 1, !.calls = calls, !.out = out]]
    /\ UNCHANGED remote
    /\ UNCHANGED <<memVars, gateVars, diskVars, funVars>>

\* a loop over api.stores that, on a hit, puts the snapshot into the stores
\* asked before
module_Get_Promote(r) ==
    /\ req[r].pc = "get"
    /\ LET i == req[r].i
           g == Store_Get(stores[i], req[r].module, req[r].version)
           calls == Append(req[r].calls,
                           Call("Get", i, g.err, g.snapshot.Timestamp, g.snapshot.Data))
       IN  /\ stores' = [h \in 1 .. Len(stores) |->
                            IF h = i THEN g.store
                            ELSE IF ~g.err /\ h < i
                            THEN Store_Put(stores[h], g.snapshot, "none").store
                            ELSE stores[h]]
           /\ req' = [req EXCEPT ![r] =
                  IF ~g.err
                  THEN [@ EXCEPT !.pc = "done", !.calls = calls,
                                 !.out = Return(g.snapshot.Data, g.snapshot.Timestamp, FALSE)]
                  ELSE [@ EXCEPT !.pc = IF i = Len(stores) THEN "timestamp" ELSE "get",
                                 !.i = i + 1, !.calls = calls]]
    /\ UNCHANGED remote
    /\ UNCHANGED <<memVars, gateVars, diskVars, funVars>>

\* one round of the loop over api.stores: store.Get
module_Get(r) ==
    /\ req[r].pc = "get"
    /\ LET i == req[r].i
           g == Store_Get(stores[i], req[r].module, req[r].version)
           calls == Append(req[r].calls,
                           Call("Get", i, g.err, g.snapshot.Timestamp, g.snapshot.Data))
       IN  /\ stores' = [stores EXCEPT ![i] = g.store]
           /\ req' = [req EXCEPT ![r] =
                  IF ~g.err
                  THEN [@ EXCEPT !.pc = "done", !.calls = calls,
                                 !.out = Return(g.snapshot.Data, g.snapshot.Timestamp, FALSE)]
                  ELSE [@ EXCEPT !.pc = IF i = Len(stores) THEN "timestamp" ELSE "get",
                                 !.i = i + 1, !.calls = calls]]
    /\ UNCHANGED remote
    /\ UNCHANGED <<memVars, gateVars, diskVars, funVars>>

\* api.vcs(ctx, module).Timestamp(ctx, version)
module_Timestamp(r) ==
    /\ req[r].pc = "timestamp"
    /\ LET t == Timestamp(req[r].module, req[r].version)
           calls == Append(req[r].calls, Call("Timestamp", 0, t.err, t.t, <<>>))
       IN  req' = [req EXCEPT ![r] =
               IF t.err
               THEN [@ EXCEPT !.pc = "done", !.calls = calls,
                              !.out = Return(<<>>, ZeroTime, TRUE)]
               ELSE [@ EXCEPT !.pc = "zip", !.timestamp = t.t, !.calls = calls]]
    /\ UNCHANGED <<stores, remote>>
    /\ UNCHANGED <<memVars, gateVars, diskVars, funVars>>

\* a fetch that goes on to the fill-back loop with what was read when io.Copy
\* fails
module_Zip_IgnoreCopyError(r, fail) ==
    /\ req[r].pc = "zip"
    /\ LET z == Zip(req[r].module, req[r].version)
           c == Copy(z.zr, fail)
           asked == Append(req[r].calls, Call("Zip", 0, z.err, ZeroTime, z.zr))
           calls == IF z.err THEN asked
                    ELSE Append(asked, Call("Copy", 0, c.err, ZeroTime, c.b))
       IN  /\ z.err => ~fail
           /\ req' = [req EXCEPT ![r] =
                  IF z.err
                  THEN [@ EXCEPT !.pc = "done", !.calls = calls,
                                 !.out = Return(<<>>, ZeroTime, TRUE)]
                  ELSE IF Len(stores) = 0
                  THEN [@ EXCEPT !.pc = "done", !.b = c.b, !.calls = calls,
                                 !.out = Return(c.b, req[r].timestamp, FALSE)]
                  ELSE [@ EXCEPT !.pc = "put", !.b = c.b, !.i = Len(stores), !.calls = calls]]
    /\ UNCHANGED <<stores, remote>>
    /\ UNCHANGED <<memVars, gateVars, diskVars, funVars>>

\* api.vcs(ctx, module).Zip(ctx, version) and io.Copy(b, zr); fail says
\* whether a Read of zr fails
module_Zip(r, fail) ==
    /\ req[r].pc = "zip"
    /\ LET z == Zip(req[r].module, req[r].version)
           c == Copy(z.zr, fail)
           asked == Append(req[r].calls, Call("Zip", 0, z.err, ZeroTime, z.zr))
           calls == IF z.err THEN asked
                    ELSE Append(asked, Call("Copy", 0, c.err, ZeroTime, c.b))
       IN  /\ z.err => ~fail
           /\ req' = [req EXCEPT ![r] =
                  IF z.err \/ c.err
                  THEN [@ EXCEPT !.pc = "done", !.calls = calls,
                                 !.out = Return(<<>>, ZeroTime, TRUE)]
                  ELSE IF Len(stores) = 0
                  THEN [@ EXCEPT !.pc = "done", !.b = c.b, !.calls = calls,
                                 !.out = Return(c.b, req[r].timestamp, FALSE)]
                  ELSE [@ EXCEPT !.pc = "put", !.b = c.b, !.i = Len(stores), !.calls = calls]]
    /\ UNCHANGED <<stores, remote>>
    /\ UNCHANGED <<memVars, gateVars, diskVars, funVars>>

\* a fill-back loop that returns the error of a failed Put
module_Put_ReturnOnError(r, fail) ==
    /\ req[r].pc = "put"
    /\ LET i == req[r].i
           snapshot == Snapshot(req[r].module, req[r].version, req[r].timestamp, req[r].b)
           p == Store_Put(stores[i], snapshot, fail)
           calls == Append(req[r].calls, Call("Put", i, p.err, snapshot.Timestamp, snapshot.Data))
       IN  /\ stores' = [stores EXCEPT ![i] = p.store]
           /\ req' = [req EXCEPT ![r] =
                  IF p.err
                  THEN [@ EXCEPT !.pc = "done", !.i = 0, !.calls = calls,
                                 !.out = Return(<<>>, ZeroTime, TRUE)]
                  ELSE IF i = 1
                  THEN [@ EXCEPT !.pc = "done", !.i = 0, !.calls = calls,
                                 !.out = Return(req[r].b, req[r].timestamp, FALSE)]
                  ELSE [@ EXCEPT !.i = i - 1, !.calls = calls]]
    /\ UNCHANGED remote
    /\ UNCHANGED <<memVars, gateVars, diskVars, funVars>>

\* a fill-back loop that stops at the first failed Put and returns the data
module_Put_StopOnError(r, fail) ==
    /\ req[r].pc = "put"
    /\ LET i == req[r].i
           snapshot == Snapshot(req[r].module, req[r].version, req[r].timestamp, req[r].b)
           p == Store_Put(stores[i], snapshot, fail)
           calls == Append(req[r].calls, Call("Put", i, p.err, snapshot.Timestamp, snapshot.Data))
       IN  /\ stores' = [stores EXCEPT ![i] = p.store]
           /\ req' = [req EXCEPT ![r] =
                  IF p.err \/ i = 1
                  THEN [@ EXCEPT !.pc = "done", !.i = 0, !.calls = calls,
                                 !.out = Return(req[r].b, req[r].timestamp, FALSE)]
                  ELSE [@ EXCEPT !.i = i - 1, !.calls = calls]]
    /\ UNCHANGED remote
    /\ UNCHANGED <<memVars, gateVars, diskVars, funVars>>

\* a fill-back loop that runs while i > 0 and so leaves out the first store
module_Put_SkipFirst(r, fail) ==
    /\ req[r].pc = "put"
    /\ LET i == req[r].i
           snapshot == Snapshot(req[r].module, req[r].version, req[r].timestamp, req[r].b)
           p == Store_Put(stores[i], snapshot, fail)
           calls == Append(req[r].calls, Call("Put", i, p.err, snapshot.Timestamp, snapshot.Data))
       IN  IF i = 1
           THEN /\ stores' = stores
                /\ req' = [req EXCEPT ![r] =
                       [@ EXCEPT !.pc = "done", !.i = 0,
                                 !.out = Return(req[r].b, req[r].timestamp, FALSE)]]
           ELSE /\ stores' = [stores EXCEPT ![i] = p.store]
                /\ req' = [req EXCEPT ![r] = [@ EXCEPT !.i = i - 1, !.calls = calls]]
    /\ UNCHANGED remote
    /\ UNCHANGED <<memVars, gateVars, diskVars, funVars>>

\* one round of the fill-back loop: api.stores[i].Put
module_Put(r, fail) ==
    /\ req[r].pc = "put"
    /\ LET i == req[r].i
           snapshot == Snapshot(req[r].module, req[r].version, req[r].timestamp, req[r].b)
           p == Store_Put(stores[i], snapshot, fail)
           calls == Append(req[r].calls, Call("Put", i, p.err, snapshot.Timestamp, snapshot.Data))
       IN  /\ stores' = [stores EXCEPT ![i] = p.store]
           /\ req' = [req EXCEPT ![r] =
                  IF i = 1
                  THEN [@ EXCEPT !.pc = "done", !.i = 0, !.calls = calls,
                                 !.out = Return(req[r].b, req[r].timestamp, FALSE)]
                  ELSE [@ EXCEPT !.i = i - 1, !.calls = calls]]
    /\ UNCHANGED remote
    /\ UNCHANGED <<memVars, gateVars, diskVars, funVars>>

\* an api.list that first asks the first store for the module
api_list_ThroughStore(r, module) ==
    /\ req[r].pc \in {"idle", "done"}
    /\ LET l == List(module)
           asked == Call("List", 0, l.err, ZeroTime, <<>>)
       IN  IF Len(stores) = 0
           THEN /\ stores' = stores
                /\ req' = [req EXCEPT ![r] =
                       [Idle EXCEPT !.pc = "done", !.module = module, !.calls = <<asked>>,
                                    !.out = Return(<<>>, ZeroTime, l.err), !.list = l.list]]
           ELSE LET g == Store_Get(stores[1], module, "v1.0.0")
                IN  /\ stores' = [stores EXCEPT ![1] = g.store]
                    /\ req' = [req EXCEPT ![r] =
                           [Idle EXCEPT !.pc = "done", !.module = module,
                                        !.calls = <<Call("Get", 1, g.err, g.snapshot.Timestamp,
                                                         g.snapshot.Data), asked>>,
                                        !.out = Return(<<>>, ZeroTime, l.err), !.list = l.list]]
    /\ UNCHANGED remote
    /\ UNCHANGED <<memVars, gateVars, diskVars, funVars>>

\* api.list: api.vcs(ctx, module).List(ctx), written to the response
api_list(r, module) ==
    /\ req[r].pc \in {"idle", "done"}
    /\ LET l == List(module)
       IN  req' = [req EXCEPT ![r] =
               [Idle EXCEPT !.pc = "done", !.module = module,
                            !.calls = <<Call("List", 0, l.err, ZeroTime, <<>>)>>,
                            !.out = Return(<<>>, ZeroTime, l.err),
                            !.list = l.list]]
    /\ UNCHANGED <<stores, remote>>
    /\ UNCHANGED <<memVars, gateVars, diskVars, funVars>>

\* the remote repository changes: a tag is created, moved or deleted
RemotePush(k, c) ==
    /\ remote[k] # c
    /\ remote' = [remote EXCEPT ![k] = c]
    /\ UNCHANGED <<stores, req>>
    /\ UNCHANGED <<memVars, gateVars, diskVars, funVars>>

NextApi ==
    \/ \E r \in Requests : \E k \in ApiKeys : module_Call(r, k[1], k[2])
    \/ \E r \in Requests : module_Get(r)
    \/ \E r \in Requests : module_Timestamp(r)
    \/ \E r \in Requests : \E fail \in BOOLEAN : module_Zip(r, fail)
    \/ \E r \in Requests : \E fail \in IOFailures : module_Put(r, fail)
    \/ \E r \in Requests : \E k \in ApiKeys : api_list(r, k[1])
    \/ \E k \in Hosted : \E c \in Commits \cup {NoCommit} : RemotePush(k, c)

SpecApi == InitApi /\ [][NextApi]_vars

(***************************************************************************)
(* Properties of api.module.                                               *)
(***************************************************************************)
\* what store st holds for (module, version), read off its contents:
\* <<timestamp, data>>, or <<>> if it has no complete entry
content(st, module, version) ==
    IF st.kind = "memory"
    THEN IF <<module, version>> \in held(st.mem)
         THEN <<itemOf(st.mem, <<module, version>>).Timestamp,
                itemOf(st.mem, <<module, version>>).Data>>
         ELSE <<>>
    ELSE LET timeFile == module \o "@" \o version \o ".time"
             zipFile == module \o "@" \o version \o ".zip"
         IN  IF {timeFile, zipFile} \subseteq DOMAIN st.files
             THEN <<Time(st.files[timeFile][1] - st.files[timeFile][2], st.files[timeFile][2]),
                    st.files[zipFile]>>
             ELSE <<>>

\* the calls of kind c a request made, in order
RECURSIVE callsOf(_, _)
callsOf(cs, c) ==
    IF cs = <<>> THEN <<>>
    ELSE IF Head(cs).call = c THEN <<Head(cs)>> \o callsOf(Tail(cs), c)
    ELSE callsOf(Tail(cs), c)

\* C8: the read path asks the stores in list order; the first Get that
\* succeeds ends the request with that store's (data, timestamp), with no
\* later store asked and no VCS call; the VCS is called only after every
\* store has missed.
C8_ReadPathInOrder ==
    \A r \in Requests :
        LET cs == req[r].calls
            n == Len(stores)
        IN  \A j \in 1 .. Len(cs) :
                /\ cs[j].call = "Get" =>
                       /\ cs[j].store = j
                       /\ \A h \in 1 .. (j - 1) : cs[h].call = "Get" /\ cs[h].err
                /\ (cs[j].call = "Get" /\ ~cs[j].err) =>
                       /\ j = Len(cs)
                       /\ req[r].pc = "done"
                       /\ req[r].out = Return(cs[j].data, cs[j].timestamp, FALSE)
                       /\ content(stores[j], req[r].module, req[r].version)
                              = <<req[r].out.timestamp, req[r].out.data>>
                /\ cs[j].call \in {"Timestamp", "Zip"} =>
                       /\ j > n
                       /\ \A i \in 1 .. n : cs[i].call = "Get" /\ cs[i].store = i /\ cs[i].err

\* a request missed in the first store and was served by the second, whose
\* entry is not what the remote has now
C8_Witness ==
    \E r \in Requests :
        /\ Len(stores) = 2
        /\ req[r].pc = "done"
        /\ Len(req[r].calls) = 2
        /\ req[r].calls[1].call = "Get" /\ req[r].calls[1].err
        /\ req[r].calls[2].call = "Get" /\ ~req[r].calls[2].err
        /\ ~req[r].out.err
        /\ req[r].out.data = <<0, 0>>
        /\ remote[<<req[r].module, req[r].version>>] = Commit(Time(1, 0), <<0>>)

\* the request fetched from the VCS: Timestamp and Zip succeeded and the
\* archive was read to its end
fetched(r) ==
    /\ \E j \in 1 .. Len(req[r].calls) :
           req[r].calls[j].call = "Timestamp" /\ ~req[r].calls[j].err
    /\ \E j \in 1 .. Len(req[r].calls) :
           req[r].calls[j].call = "Zip" /\ ~req[r].calls[j].err
    /\ \E j \in 1 .. Len(req[r].calls) :
           req[r].calls[j].call = "Copy" /\ ~req[r].calls[j].err

\* C9: after a fetch the fill-back calls Put on the stores from the last
\* to the first, and a failed Put does not stop it: the request ends with a
\* Put made on every store.
C9_FillBackOrder ==
    \A r \in Requests :
        LET puts == callsOf(req[r].calls, "Put")
            n == Len(stores)
        IN  /\ \A j \in 1 .. Len(puts) : puts[j].store = n - j + 1
            /\ puts # <<>> => fetched(r)
            /\ (req[r].pc = "done" /\ fetched(r)) => Len(puts) = n

\* the Put on the last store failed and the Put on the first store was made
\* and stored the snapshot
C9_Witness ==
    \E r \in Requests :
        LET puts == callsOf(req[r].calls, "Put")
        IN  /\ Len(stores) = 2
            /\ req[r].pc = "done"
            /\ Len(puts) = 2
            /\ puts[1].store = 2 /\ puts[1].err
            /\ puts[2].store = 1 /\ ~puts[2].err
            /\ content(stores[1], req[r].module, req[r].version)
                   = <<req[r].timestamp, req[r].b>>
            /\ content(stores[2], req[r].module, req[r].version) = <<>>

\* C10: when Timestamp and Zip succeed, api.module returns the bytes of Zip
\* and the time of Timestamp with a nil error, whichever Puts fail.
C10_PutFailureSwallowed ==
    \A r \in Requests :
        (req[r].pc = "done" /\ fetched(r)) =>
            LET t == callsOf(req[r].calls, "Timestamp")[1]
                z == callsOf(req[r].calls, "Zip")[1]
            IN  req[r].out = Return(z.data, t.timestamp, FALSE)

\* every Put of the fill-back failed and the request returned the archive
C10_Witness ==
    \E r \in Requests :
        LET puts == callsOf(req[r].calls, "Put")
        IN  /\ req[r].pc = "done"
            /\ Len(puts) = 2
            /\ puts[1].err /\ puts[2].err
            /\ ~req[r].out.err
            /\ req[r].out.data = <<0, 0>>
            /\ req[r].out.timestamp = Time(2, 1)

\* every memory store of the configuration can hold an archive of n bytes
fits(n) ==
    \A i \in 1 .. Len(stores) :
        stores[i].kind = "memory" => (stores[i].mem.limit < 0 \/ n <= stores[i].mem.limit)

\* C11: when a request misses every store, fetches (T, A) from the VCS and
\* has every Put succeed, with memory limits large enough for A, every store
\* holds (M, V) -> (T, A) when it returns, and the request for (M, V) that
\* follows it returns the same (A, T) from a store without a VCS call.
C11_FillThenHit ==
    \A r \in Requests :
        LET cs == req[r].calls
            puts == callsOf(cs, "Put")
        IN  /\ ( /\ req[r].pc = "done"
                 /\ fetched(r)
                 /\ \A j \in 1 .. Len(puts) : ~puts[j].err
                 /\ fits(Len(req[r].out.data)) ) =>
                    \A i \in 1 .. Len(stores) :
                        content(stores[i], req[r].module, req[r].version)
                            = <<req[r].out.timestamp, req[r].out.data>>
            /\ ( /\ req[r].pc = "done"
                 /\ req[r].prev.filled
                 /\ req[r].prev.module = req[r].module
                 /\ req[r].prev.version = req[r].version
                 /\ fits(Len(req[r].prev.out.data)) ) =>
                    /\ req[r].out = req[r].prev.out
                    /\ \A j \in 1 .. Len(cs) : cs[j].call = "Get"
                    /\ ~cs[Len(cs)].err

\* with stores [memory, disk] a request filled both and the request after
\* it for the same key was served by the memory store, although the remote had
\* moved on in the meantime
C11_Witness ==
    \E r \in Requests :
        /\ Len(stores) = 2
        /\ stores[1].kind = "memory" /\ stores[2].kind = "disk"
        /\ req[r].pc = "done"
        /\ req[r].prev.filled
        /\ req[r].prev.module = req[r].module
        /\ req[r].prev.version = req[r].version
        /\ req[r].out = Return(<<0, 0>>, Time(2, 1), FALSE)
        /\ req[r].calls = <<Call("Get", 1, FALSE, Time(2, 1), <<0, 0>>)>>
        /\ content(stores[2], req[r].module, req[r].version) = <<Time(2, 1), <<0, 0>>>>
        /\ remote[<<req[r].module, req[r].version>>] # Commit(Time(2, 1), <<0, 0>>)

(***************************************************************************)
(* SpecGate: api.module behind the gate of api.VCSWorkers(n), which main   *)
(* configures; requests run concurrently, one goroutine each.              *)
(***************************************************************************)
MaxRequests == 2

MaxWorkers == 2

GateRequests == 1 .. MaxRequests

\* how a call of the VCS can end; "drain" is a failure of io.Copy
Outcomes == {"ok", "error", "canceled", "drain"}

\* a request behind the gate: token says whether it holds a token, path how
\* it came to return
GateIdle ==
    [pc |-> "idle", module |-> "", version |-> "", i |-> 0, timestamp |-> ZeroTime,
     b |-> <<>>, token |-> FALSE, path |-> "", out |-> Return(<<>>, ZeroTime, FALSE)]

InitGate ==
    /\ workers \in 1 .. MaxWorkers
    /\ semc = 0
    /\ stores \in {<<DiskStore>>, <<MemoryStore(MaxLimit), DiskStore>>}
    /\ req = [r \in GateRequests |-> GateIdle]
    /\ remote = [k \in ApiKeys |-> IF k \in Hosted THEN Commit(Time(2, 1), <<0, 0>>) ELSE NoCommit]
    /\ m = Memory(0)
    /\ ret = NoCall
    /\ inserted = [k \in {} |-> ZeroSnapshot]
    /\ uses = <<>>
    /\ diskUnused /\ funUnused

\* a handler calls api.module(ctx, module, version)
gate_Call(r, module, version) ==
    /\ req[r].pc \in {"idle", "done"}
    /\ req' = [req EXCEPT ![r] = [GateIdle EXCEPT !.pc = "get", !.module = module,
                                                  !.version = version, !.i = 1]]
    /\ UNCHANGED <<stores, remote, semc, workers>>
    /\ UNCHANGED <<memVars, diskVars, funVars>>

\* one round of the loop over api.stores; after the last miss the request
\* goes to wait for a token
gate_Get(r) ==
    /\ req[r].pc = "get"
    /\ LET i == req[r].i
           g == Store_Get(stores[i], req[r].module, req[r].version)
       IN  /\ stores' = [stores EXCEPT ![i] = g.store]
           /\ req' = [req EXCEPT ![r] =
                  IF ~g.err
                  THEN [@ EXCEPT !.pc = "done", !.path = "hit",
                                 !.out = Return(g.snapshot.Data, g.snapshot.Timestamp, FALSE)]
                  ELSE [@ EXCEPT !.pc = IF i = Len(stores) THEN "acquire" ELSE "get",
                                 !.i = i + 1]]
    /\ UNCHANGED <<remote, semc, workers>>
    /\ UNCHANGED <<memVars, diskVars, funVars>>

\* an acquire that does not wait for a free token
gate_Acquire_NoWait(r) ==
    /\ req[r].pc = "acquire"
    /\ semc' = semc + 1
    /\ req' = [req EXCEPT ![r] = [@ EXCEPT !.pc = "timestamp", !.token = TRUE]]
    /\ UNCHANGED <<stores, remote, workers>>
    /\ UNCHANGED <<memVars, diskVars, funVars>>

\* the request takes a token; it waits while all the tokens are taken
gate_Acquire(r) ==
    /\ req[r].pc = "acquire"
    /\ semc < workers
    /\ semc' = semc + 1
    /\ req' = [req EXCEPT ![r] = [@ EXCEPT !.pc = "timestamp", !.token = TRUE]]
    /\ UNCHANGED <<stores, remote, workers>>
    /\ UNCHANGED <<memVars, diskVars, funVars>>

\* the request returns: what it returns, and the token goes back
gate_Return(q, path, out) == [q EXCEPT !.pc = "done", !.i = 0, !.token = FALSE,
                                       !.path = path, !.out = out]

\* VCS.Timestamp under the token
gate_Timestamp(r, outcome) ==
    /\ req[r].pc = "timestamp"
    /\ outcome \in {"ok", "error", "canceled"}
    /\ LET t == Timestamp(req[r].module, req[r].version)
       IN  /\ outcome = "ok" => ~t.err
           /\ IF outcome = "ok"
              THEN /\ req' = [req EXCEPT ![r] = [@ EXCEPT !.pc = "zip", !.timestamp = t.t]]
                   /\ semc' = semc
              ELSE /\ req' = [req EXCEPT ![r] =
                          gate_Return(@, "timestamp " \o outcome, Return(<<>>, ZeroTime, TRUE))]
                   /\ semc' = semc - 1
    /\ UNCHANGED <<stores, remote, workers>>
    /\ UNCHANGED <<memVars, diskVars, funVars>>

\* a Zip whose failure returns without giving the token back
gate_Zip_Leak(r, outcome) ==
    /\ req[r].pc = "zip"
    /\ LET z == Zip(req[r].module, req[r].version)
       IN  /\ outcome = "ok" => ~z.err
           /\ IF outcome = "ok"
              THEN /\ req' = [req EXCEPT ![r] = [@ EXCEPT !.pc = "put", !.b = z.zr,
                                                          !.i = Len(stores)]]
                   /\ semc' = semc
              ELSE /\ req' = [req EXCEPT ![r] =
                          gate_Return(@, "zip " \o outcome, Return(<<>>, ZeroTime, TRUE))]
                   /\ semc' = semc
    /\ UNCHANGED <<stores, remote, workers>>
    /\ UNCHANGED <<memVars, diskVars, funVars>>

\* VCS.Zip and io.Copy under the token
gate_Zip(r, outcome) ==
    /\ req[r].pc = "zip"
    /\ LET z == Zip(req[r].module, req[r].version)
       IN  /\ outcome = "ok" => ~z.err
           /\ IF outcome = "ok"
              THEN /\ req' = [req EXCEPT ![r] = [@ EXCEPT !.pc = "put", !.b = z.zr,
                                                          !.i = Len(stores)]]
                   /\ semc' = semc
              ELSE /\ req' = [req EXCEPT ![r] =
                          gate_Return(@, "zip " \o outcome, Return(<<>>, ZeroTime, TRUE))]
                   /\ semc' = semc - 1
    /\ UNCHANGED <<stores, remote, workers>>
    /\ UNCHANGED <<memVars, diskVars, funVars>>

\* one round of the fill-back loop; after the last Put the request returns
gate_Put(r, fail) ==
    /\ req[r].pc = "put"
    /\ LET i == req[r].i
           snapshot == Snapshot(req[r].module, req[r].version, req[r].timestamp, req[r].b)
           p == Store_Put(stores[i], snapshot, fail)
       IN  /\ stores' = [stores EXCEPT ![i] = p.store]
           /\ IF i = 1
              THEN /\ req' = [req EXCEPT ![r] =
                          gate_Return(@, "ok", Return(req[r].b, req[r].timestamp, FALSE))]
                   /\ semc' = semc - 1
              ELSE /\ req' = [req EXCEPT ![r] = [@ EXCEPT !.i = i - 1]]
                   /\ semc' = semc
    /\ UNCHANGED <<remote, workers>>
    /\ UNCHANGED <<memVars, diskVars, funVars>>

NextGate ==
    \/ \E r \in GateRequests : \E k \in ApiKeys : gate_Call(r, k[1], k[2])
    \/ \E r \in GateRequests : gate_Get(r)
    \/ \E r \in GateRequests : gate_Acquire(r)
    \/ \E r \in GateRequests : \E outcome \in Outcomes : gate_Timestamp(r, outcome)
    \/ \E r \in GateRequests : \E outcome \in Outcomes : gate_Zip(r, outcome)
    \/ \E r \in GateRequests : \E fail \in {"none", "WriteZip"} : gate_Put(r, fail)

SpecGate == InitGate /\ [][NextGate]_vars

\* the requests holding a token
holders == {r \in DOMAIN req : req[r].token}

Writers == {1, 2}

\* the snapshots they store
DiskSnapshots == {s \in Snapshots : s.Module = "foo" /\ s.Data # <<>>}

\* a disk.Put call: where it is, its argument, whether it failed, and whether
\* it is the call that returned last
PutIdle == [pc |-> "idle", snapshot |-> ZeroSnapshot, err |-> FALSE, last |-> FALSE]

InitDisk ==
    /\ dir = NoFiles
    /\ put = [w \in Writers |-> PutIdle]
    /\ m = Memory(0)
    /\ ret = NoCall
    /\ inserted = [k \in {} |-> ZeroSnapshot]
    /\ uses = <<>>
    /\ stores = <<>>
    /\ req = <<>>
    /\ remote = <<>>
    /\ gateUnused /\ funUnused

\* put with the call of w returned now
returned(w, err) ==
    [v \in Writers |-> IF v = w THEN [put[v] EXCEPT !.pc = "done", !.err = err, !.last = TRUE]
                       ELSE [put[v] EXCEPT !.last = FALSE]]

\* a caller runs d.Put(ctx, snapshot)
disk_PutCall(w, snapshot) ==
    /\ put[w].pc \in {"idle", "done", "deleted"}
    /\ put' = [put EXCEPT ![w] = [PutIdle EXCEPT !.pc = "MkdirAll", !.snapshot = snapshot,
                                                 !.last = put[w].last]]
    /\ UNCHANGED dir
    /\ UNCHANGED <<memVars, apiVars, gateVars, funVars>>

\* os.MkdirAll(filepath.Dir(timeFile), 0755)
disk_MkdirAll(w, fail) ==
    /\ put[w].pc = "MkdirAll"
    /\ put' = IF fail THEN returned(w, TRUE) ELSE [put EXCEPT ![w].pc = "WriteTime"]
    /\ UNCHANGED dir
    /\ UNCHANGED <<memVars, apiVars, gateVars, funVars>>

\* ioutil.WriteFile(timeFile, t, 0644)
disk_WriteTime(w, fail) ==
    /\ put[w].pc = "WriteTime"
    /\ IF fail
       THEN /\ put' = returned(w, TRUE)
            /\ dir' = dir
       ELSE /\ put' = [put EXCEPT ![w].pc = "WriteZip"]
            /\ dir' = WriteFile(dir, Key(put[w].snapshot) \o ".time",
                                MarshalText(put[w].snapshot.Timestamp))
    /\ UNCHANGED <<memVars, apiVars, gateVars, funVars>>

\* return ioutil.WriteFile(zipFile, snapshot.Data, 0644)
disk_WriteZip(w, fail) ==
    /\ put[w].pc = "WriteZip"
    /\ put' = returned(w, fail)
    /\ dir' = IF fail THEN dir
              ELSE WriteFile(dir, Key(put[w].snapshot) \o ".zip", put[w].snapshot.Data)
    /\ UNCHANGED <<memVars, apiVars, gateVars, funVars>>

\* a caller runs d.Del(ctx, module, version)
disk_DelCall(w, module, version, fail) ==
    /\ put[w].pc \in {"idle", "done", "deleted"}
    /\ LET d == disk_Del(dir, module, version, fail)
       IN  /\ dir' = d.files
           /\ put' = [put EXCEPT ![w] =
                  [PutIdle EXCEPT !.pc = "deleted", !.err = d.err, !.last = put[w].last,
                                  !.snapshot = Snapshot(module, version, ZeroTime, <<>>)]]
    /\ UNCHANGED <<memVars, apiVars, gateVars, funVars>>

NextDisk ==
    \/ \E w \in Writers : \E snapshot \in DiskSnapshots : disk_PutCall(w, snapshot)
    \/ \E w \in Writers : \E snapshot \in DiskSnapshots : \E fail \in RemoveFailures :
           disk_DelCall(w, snapshot.Module, snapshot.Version, fail)
    \/ \E w \in Writers : \E fail \in BOOLEAN : disk_MkdirAll(w, fail)
    \/ \E w \in Writers : \E fail \in BOOLEAN : disk_WriteTime(w, fail)
    \/ \E w \in Writers : \E fail \in BOOLEAN : disk_WriteZip(w, fail)

SpecDisk == InitDisk /\ [][NextDisk]_vars

\* C14: when two Puts of one key with different timestamps and data have
\* both returned without error, Get returns the timestamp and the data of the
\* Put that returned last.
C14_DiskLastWriterWins ==
    \A v, w \in Writers :
        ( /\ v # w
          /\ put[v].pc = "done" /\ ~put[v].err
          /\ put[w].pc = "done" /\ ~put[w].err /\ put[w].last
          /\ pair(put[v].snapshot) = pair(put[w].snapshot)
          /\ put[v].snapshot.Timestamp # put[w].snapshot.Timestamp
          /\ put[v].snapshot.Data # put[w].snapshot.Data ) =>
            LET g == disk_Get(dir, put[w].snapshot.Module, put[w].snapshot.Version)
            IN  /\ ~g.err
                /\ g.snapshot.Timestamp = put[w].snapshot.Timestamp
                /\ g.snapshot.Data = put[w].snapshot.Data

(***************************************************************************)
(* package strings, on TLA+ strings; indices are Go's, from 0.             *)
(***************************************************************************)
\* s[i:]
From(s, i) == SubSeq(s, i + 1, Len(s))

\* s[:i]
Upto(s, i) == SubSeq(s, 1, i)

\* strings.HasPrefix
HasPrefix(s, prefix) == Len(s) >= Len(prefix) /\ Upto(s, Len(prefix)) = prefix

\* strings.HasSuffix
HasSuffix(s, suffix) == Len(s) >= Len(suffix) /\ From(s, Len(s) - Len(suffix)) = suffix

\* strings.TrimPrefix
TrimPrefix(s, prefix) == IF HasPrefix(s, prefix) THEN From(s, Len(prefix)) ELSE s

\* strings.TrimSuffix
TrimSuffix(s, suffix) == IF HasSuffix(s, suffix) THEN Upto(s, Len(s) - Len(suffix)) ELSE s

\* strings.Index: where substr first occurs in s, or -1
Index(s, substr) ==
    LET at == {i \in 0 .. (Len(s) - Len(substr)) : SubSeq(s, i + 1, i + Len(substr)) = substr}
    IN  IF at = {} THEN -1 ELSE CHOOSE i \in at : \A j \in at : i <= j

\* strings.Contains
Contains(s, substr) == Index(s, substr) >= 0

\* strings.Split, for a separator that is not empty
RECURSIVE Split(_, _)
Split(s, sep) ==
    LET i == Index(s, sep)
    IN  IF i < 0 THEN <<s>>
        ELSE <<Upto(s, i)>> \o Split(From(s, i + Len(sep)), sep)

\* strings.Join
RECURSIVE Join(_, _)
Join(a, sep) ==
    IF Len(a) = 0 THEN ""
    ELSE IF Len(a) = 1 THEN a[1]
    ELSE a[1] \o sep \o Join(Tail(a), sep)

\* unicode.IsSpace, for the characters of the inputs
IsSpace(c) == c \in {" ", "\t", "\n", "\r"}

\* strings.Fields: the pieces of s between runs of white space; field is the
\* piece being read
RECURSIVE fieldsFrom(_, _, _)
fieldsFrom(s, i, field) ==
    IF i > Len(s) THEN (IF field = "" THEN <<>> ELSE <<field>>)
    ELSE IF IsSpace(SubSeq(s, i, i))
    THEN (IF field = "" THEN <<>> ELSE <<field>>) \o fieldsFrom(s, i + 1, "")
    ELSE fieldsFrom(s, i + 1, field \o SubSeq(s, i, i))

Fields(s) == fieldsFrom(s, 1, "")

(***************************************************************************)
(* The git VCS: gitVCS.List, gitVCS.Timestamp, gitVCS.commit.              *)
(***************************************************************************)
MaxRefs == 3

\* plumbing.Master
Master == "refs/heads/master"

\* object hashes: two commits and an annotated tag object
HashA == "0e37d006457b3a9f5c2d8e1b7a6f4c3d2e1f0a9b"

HashB == "cbd3c6886e0f4d5a6b7c8d9e0f1a2b3c4d5e6f70"

HashT == "7d1f2e3c4b5a69788796a5b4c3d2e1f00f1e2d3c"

\* time.Time.Format("20060102150405"): the clock reading in the time's own
\* zone; sec counts the seconds since 2018-09-10T18:16:05Z
Format(t) ==
    <<"20180910181605", "20180910181606", "20180910181607", "20180910181608",
      "20180910181609">>[t.sec + t.off + 1]

\* time.Time.UTC
UTC(t) == Time(t.sec, 0)

\* a reference of the remote: its name and the hash it points to
Ref(name, hash) == [name |-> name, hash |-> hash]

\* the objects of the repository after the fetch: the commits, in the order
\* CommitObjects iterates them, and the annotated tag objects
RepoCommits == <<[hash |-> HashA, when |-> Time(2, 0)], [hash |-> HashB, when |-> Time(2, 1)]>>

RepoTagObjects == {[hash |-> HashT, target |-> HashB]}

Repository(refs) == [refs |-> refs, commits |-> RepoCommits, tagObjects |-> RepoTagObjects]

\* Version.IsSemVer: ^v\d+\.\d+\.\d+$
IsSemVer(v) ==
    LET digits == {"0", "1", "2", "3", "4", "5", "6", "7", "8", "9"}
        parts == Split(From(v, 1), ".")
    IN  /\ HasPrefix(v, "v")
        /\ Len(parts) = 3
        /\ \A k \in 1 .. 3 :
               /\ Len(parts[k]) > 0
               /\ \A j \in 1 .. Len(parts[k]) : SubSeq(parts[k], j, j) \in digits

\* a Hash that returns the last field however many fields there are
Hash_LastField(v) ==
    LET fields == Split(v, "-")
    IN  fields[Len(fields)]

\* Version.Hash
Hash(v) ==
    LET fields == Split(v, "-")
    IN  IF Len(fields) # 3 THEN "" ELSE fields[3]

\* repo.CommitObject(plumbing.NewHash(hash))
CommitObject(repo, hash) ==
    LET found == {j \in 1 .. Len(repo.commits) : repo.commits[j].hash = hash}
    IN  IF found = {} THEN [ci |-> [hash |-> "", when |-> ZeroTime], err |-> "object not found"]
        ELSE [ci |-> repo.commits[CHOOSE j \in found : TRUE], err |-> ""]

\* a tags.ForEach that does not look for an annotated tag object
RECURSIVE tagsForEach_NoTagObject(_, _, _, _)
tagsForEach_NoTagObject(repo, refs, version, hash) ==
    IF refs = <<>> THEN hash
    ELSE LET t == Head(refs)
             h == IF HasPrefix(t.name, "refs/tags/") /\ t.name = "refs/tags/" \o version
                  THEN t.hash
                  ELSE hash
         IN  tagsForEach_NoTagObject(repo, Tail(refs), version, h)

\* the loop of tags.ForEach in gitVCS.commit
RECURSIVE tagsForEach(_, _, _, _)
tagsForEach(repo, refs, version, hash) ==
    IF refs = <<>> THEN hash
    ELSE LET t == Head(refs)
             annotated == {o \in repo.tagObjects : o.hash = t.hash}
             h == IF HasPrefix(t.name, "refs/tags/") /\ t.name = "refs/tags/" \o version
                  THEN IF annotated # {} THEN (CHOOSE o \in annotated : TRUE).target
                       ELSE t.hash
                  ELSE hash
         IN  tagsForEach(repo, Tail(refs), version, h)

\* the loop of commits.ForEach in gitVCS.commit
RECURSIVE commitsForEach(_, _, _)
commitsForEach(commits, version, hash) ==
    IF commits = <<>> THEN hash
    ELSE commitsForEach(Tail(commits), version,
                        IF HasPrefix(Head(commits).hash, Hash(version))
                        THEN Head(commits).hash ELSE hash)

\* a gitVCS.commit that looks the version up as it was given
gitVCS_commit_NoTrim(repo, v) ==
    LET version == v
        hash == IF IsSemVer(version)
                THEN tagsForEach(repo, repo.refs, version, Hash(version))
                ELSE commitsForEach(repo.commits, version, Hash(version))
    IN  CommitObject(repo, hash)

\* gitVCS.commit, the fetch having succeeded
gitVCS_commit(repo, v) ==
    LET version == TrimSuffix(v, "+incompatible")
        hash == IF IsSemVer(version)
                THEN tagsForEach(repo, repo.refs, version, Hash(version))
                ELSE commitsForEach(repo.commits, version, Hash(version))
    IN  CommitObject(repo, hash)

\* gitVCS.Timestamp
gitVCS_Timestamp(repo, version) ==
    LET c == gitVCS_commit(repo, version)
    IN  IF c.err # "" THEN [t |-> ZeroTime, err |-> c.err] ELSE [t |-> c.ci.when, err |-> ""]

\* a loop over refs that keeps every tag under the prefix, "v" or not
RECURSIVE listRefs_AnyTag(_, _, _, _)
listRefs_AnyTag(refs, tagPrefix, list, masterHash) ==
    IF refs = <<>> THEN [list |-> list, masterHash |-> masterHash]
    ELSE LET ref == Head(refs)
         IN  IF ref.name = Master
             THEN listRefs_AnyTag(Tail(refs), tagPrefix, list, ref.hash)
             ELSE IF HasPrefix(ref.name, "refs/tags/")
                     /\ HasPrefix(ref.name, "refs/tags/" \o tagPrefix)
             THEN listRefs_AnyTag(Tail(refs), tagPrefix,
                                  Append(list, TrimPrefix(ref.name, "refs/tags/" \o tagPrefix)),
                                  masterHash)
             ELSE listRefs_AnyTag(Tail(refs), tagPrefix, list, masterHash)

\* the loop over refs in gitVCS.List: the list of versions and masterHash
RECURSIVE listRefs(_, _, _, _)
listRefs(refs, tagPrefix, list, masterHash) ==
    IF refs = <<>> THEN [list |-> list, masterHash |-> masterHash]
    ELSE LET ref == Head(refs)
         IN  IF ref.name = Master
             THEN listRefs(Tail(refs), tagPrefix, list, ref.hash)
             ELSE IF HasPrefix(ref.name, "refs/tags/")
                     /\ HasPrefix(ref.name, "refs/tags/" \o tagPrefix \o "v")
             THEN listRefs(Tail(refs), tagPrefix,
                           Append(list, TrimPrefix(ref.name, "refs/tags/" \o tagPrefix)),
                           masterHash)
             ELSE listRefs(Tail(refs), tagPrefix, list, masterHash)

\* gitVCS.List, the remote having answered with repo.refs; prefix is g.prefix
gitVCS_List(repo, prefix) ==
    LET tagPrefix == IF prefix # "" THEN prefix \o "/" ELSE ""
        l == listRefs(repo.refs, tagPrefix, <<>>, "")
    IN  IF Len(l.list) = 0
        THEN IF l.masterHash = ""
             THEN [list |-> <<>>, err |-> "no tags and no master branch found"]
             ELSE LET short == Upto(l.masterHash, 12)
                      t == gitVCS_Timestamp(repo, "v0.0.0-20060102150405-" \o short)
                  IN  IF t.err # "" THEN [list |-> <<>>, err |-> t.err]
                      ELSE [list |-> <<"v0.0.0-" \o Format(t.t) \o "-" \o short>>, err |-> ""]
        ELSE [list |-> l.list, err |-> ""]

(***************************************************************************)
(* SpecGit: one call of gitVCS.List or of gitVCS.commit on a repository.   *)
(***************************************************************************)
\* the references a remote may advertise
RemoteRefs ==
    {Ref(Master, HashA), Ref(Master, HashB), Ref("refs/heads/dev", HashA),
     Ref("refs/tags/v1.0.0", HashA), Ref("refs/tags/v1.0.0", HashT),
     Ref("refs/tags/sub/v1.0.0", HashA), Ref("refs/tags/release-1", HashA),
     Ref("refs/tags/v2-beta", HashT)}

\* what the remote advertises: up to MaxRefs references with different names
Advertised ==
    {refs \in SeqsUpTo(RemoteRefs, MaxRefs) :
        \A i, j \in 1 .. Len(refs) : i # j => refs[i].name # refs[j].name}

\* the versions asked of gitVCS.commit
AskedVersions ==
    {"v1.0.0", "v1.1.0", "v1.0.0+incompatible", "v2-beta",
     "v0.0.0-20060102150405-0e37d006457b", "v0.0.0-20060102150405-cbd3c6886e0f"}

\* the strings asked of Version.IsSemVer and Version.Hash: up to MaxPieces
\* pieces, one after the other
MaxPieces == 4

VersionPieces == {"v1.0.0", "1.0.0", "-", "-abc", "."}

Versions == {Join(s, "") : s \in SeqsUpTo(VersionPieces, MaxPieces)}

NotCalled == [called |-> FALSE]

InitGit ==
    /\ arg \in {[op |-> "List", refs |-> refs, prefix |-> prefix, version |-> ""] :
                    refs \in Advertised, prefix \in {"", "sub"}}
               \cup {[op |-> "commit", refs |-> refs, prefix |-> "", version |-> version] :
                    refs \in Advertised, version \in AskedVersions}
               \cup {[op |-> "Version", refs |-> <<>>, prefix |-> "", version |-> version] :
                    version \in Versions}
    /\ res = NotCalled
    /\ m = Memory(0)
    /\ ret = NoCall
    /\ inserted = [k \in {} |-> ZeroSnapshot]
    /\ uses = <<>>
    /\ stores = <<>>
    /\ req = <<>>
    /\ remote = <<>>
    /\ gateUnused /\ diskUnused

\* g.List(ctx)
ListCall ==
    /\ arg.op = "List"
    /\ ~res.called
    /\ LET l == gitVCS_List(Repository(arg.refs), arg.prefix)
       IN  res' = [called |-> TRUE, list |-> l.list, err |-> l.err]
    /\ UNCHANGED arg
    /\ UNCHANGED <<memVars, apiVars, gateVars, diskVars>>

\* g.commit(ctx, version)
CommitCall ==
    /\ arg.op = "commit"
    /\ ~res.called
    /\ LET c == gitVCS_commit(Repository(arg.refs), arg.version)
       IN  res' = [called |-> TRUE, ci |-> c.ci, err |-> c.err]
    /\ UNCHANGED arg
    /\ UNCHANGED <<memVars, apiVars, gateVars, diskVars>>

\* g.commit(ctx, version+"+incompatible") on the same repository
CommitIncompatible ==
    /\ arg.op = "commit"
    /\ res.called
    /\ "inc" \notin DOMAIN res
    /\ LET c == gitVCS_commit(Repository(arg.refs), arg.version \o "+incompatible")
       IN  res' = [called |-> TRUE, ci |-> res.ci, err |-> res.err,
                   inc |-> [ci |-> c.ci, err |-> c.err]]
    /\ UNCHANGED arg
    /\ UNCHANGED <<memVars, apiVars, gateVars, diskVars>>

\* g.commit(ctx, version), as Timestamp and Zip call it, for each version
\* that g.List returned, on the same repository
CommitListed ==
    /\ arg.op = "List"
    /\ res.called
    /\ "commits" \notin DOMAIN res
    /\ res' = [called |-> TRUE, list |-> res.list, err |-> res.err,
               commits |-> [j \in 1 .. Len(res.list) |->
                               gitVCS_commit(Repository(arg.refs), res.list[j])]]
    /\ UNCHANGED arg
    /\ UNCHANGED <<memVars, apiVars, gateVars, diskVars>>

\* Version(v).IsSemVer() and Version(v).Hash()
VersionCall ==
    /\ arg.op = "Version"
    /\ ~res.called
    /\ res' = [called |-> TRUE, semver |-> IsSemVer(arg.version), hash |-> Hash(arg.version)]
    /\ UNCHANGED arg
    /\ UNCHANGED <<memVars, apiVars, gateVars, diskVars>>

NextGit ==
    \/ ListCall
    \/ CommitCall
    \/ CommitIncompatible
    \/ CommitListed
    \/ VersionCall

SpecGit == InitGit /\ [][NextGit]_vars

\* the tags of refs that start with refs/tags/<tagPrefix>v, in the order
\* advertised
surviving(refs, prefix) ==
    LET want == "refs/tags/" \o (IF prefix = "" THEN "" ELSE prefix \o "/") \o "v"
    IN  SelectSeq(refs, LAMBDA ref : Len(ref.name) >= Len(want)
                                     /\ SubSeq(ref.name, 1, Len(want)) = want)

\* the positions of refs/heads/master in refs
masters(refs) == {j \in 1 .. Len(refs) : refs[j].name = "refs/heads/master"}

\* C15: List returns the surviving tags without refs/tags/<tagPrefix> if
\* there are any; otherwise one pseudo-version if master was advertised;
\* otherwise it fails with "no tags and no master branch found".
C15_ListTagsElseMaster ==
    (arg.op = "List" /\ res.called) =>
        LET tags == surviving(arg.refs, arg.prefix)
            strip == Len("refs/tags/") + (IF arg.prefix = "" THEN 0 ELSE Len(arg.prefix) + 1)
        IN  IF tags # <<>>
            THEN /\ res.err = ""
                 /\ res.list = [j \in 1 .. Len(tags) |->
                                    SubSeq(tags[j].name, strip + 1, Len(tags[j].name))]
            ELSE IF masters(arg.refs) # {}
            THEN /\ res.err = ""
                 /\ Len(res.list) = 1
                 /\ SubSeq(res.list[1], 1, 7) = "v0.0.0-"
            ELSE /\ res.err = "no tags and no master branch found"
                 /\ res.list = <<>>

\* a module in the directory sub of a repository with a tag of the
\* repository, a tag of the module and master: List returns the module's tag
C15_Witness ==
    /\ arg.op = "List" /\ res.called
    /\ arg.prefix = "sub"
    /\ Len(arg.refs) = 3
    /\ masters(arg.refs) # {}
    /\ \E j \in 1 .. 3 : arg.refs[j].name = "refs/tags/v1.0.0"
    /\ \E j \in 1 .. 3 : arg.refs[j].name = "refs/tags/sub/v1.0.0"
    /\ res.list = <<"v1.0.0">>

\* the commit time of the commit with the given hash
whenOf(hash) == (CHOOSE c \in {RepoCommits[j] : j \in 1 .. Len(RepoCommits)} : c.hash = hash).when

\* C16: the pseudo-version List makes for master is v0.0.0-<time>-<h>, with
\* the commit time of master's commit in UTC as YYYYMMDDhhmmss and the first
\* 12 characters of master's hash.
C16_PseudoVersionInUTC ==
    ( /\ arg.op = "List" /\ res.called
      /\ surviving(arg.refs, arg.prefix) = <<>>
      /\ masters(arg.refs) # {} ) =>
        LET master == arg.refs[CHOOSE j \in masters(arg.refs) : TRUE]
            utc == <<"20180910181605", "20180910181606", "20180910181607">>[whenOf(master.hash).sec + 1]
        IN  res.list = <<"v0.0.0-" \o utc \o "-" \o SubSeq(master.hash, 1, 12)>>

\* C17: for a SemVer version v, commit returns the commit the tag
\* refs/tags/<v> points to, through the tag object if the tag is annotated,
\* and fails if no tag has that name.
C17_SemVerResolvesTag ==
    (arg.op = "commit" /\ res.called /\ IsSemVer(arg.version)) =>
        LET named == {j \in 1 .. Len(arg.refs) : arg.refs[j].name = "refs/tags/" \o arg.version}
        IN  IF named = {}
            THEN res.err # ""
            ELSE LET tag == arg.refs[CHOOSE j \in named : TRUE]
                 IN  /\ res.err = ""
                     /\ res.ci.hash = IF tag.hash = HashT THEN HashB ELSE tag.hash

\* v1.0.0 is an annotated tag: commit returned the commit its tag object
\* points to
C17_Witness ==
    /\ arg.op = "commit" /\ res.called
    /\ arg.version = "v1.0.0"
    /\ \E j \in 1 .. Len(arg.refs) : arg.refs[j] = Ref("refs/tags/v1.0.0", HashT)
    /\ res.err = ""
    /\ res.ci.hash = HashB

(***************************************************************************)
(* RepoRoot.                                                               *)
(***************************************************************************)
MaxMetas == 2

\* a <meta> element of the page's head
Meta(name, text) == [name |-> name, content |-> text]

\* the answer to GET https://<module>?go-get=1: how it went and, if it was
\* decoded, the meta elements of the head
Response(status, metas) == [status |-> status, metas |-> metas]

\* what RepoRoot returns; get says whether http.Get was called
Root(root, path, err, get) == [root |-> root, path |-> path, err |-> err, get |-> get]

\* a loop over the meta elements that takes the last go-import element
RECURSIVE goImport_Last(_, _)
goImport_Last(metas, module) ==
    IF metas = <<>> THEN Root("", "", "go-import meta tag not found", TRUE)
    ELSE LET meta == metas[Len(metas)]
             f == Fields(meta.content)
         IN  IF meta.name = "go-import" /\ Len(f) = 3
             THEN LET i == Index(f[3], "://")
                      url == IF i >= 0 THEN From(f[3], i + 3) ELSE f[3]
                  IN  Root(url, TrimPrefix(TrimPrefix(module, f[1]), "/"), "", TRUE)
             ELSE goImport_Last(Upto(metas, Len(metas) - 1), module)

\* the loop over html.Head.Meta in RepoRoot
RECURSIVE goImport(_, _)
goImport(metas, module) ==
    IF metas = <<>> THEN Root("", "", "go-import meta tag not found", TRUE)
    ELSE LET meta == Head(metas)
             f == Fields(meta.content)
         IN  IF meta.name = "go-import" /\ Len(f) = 3
             THEN LET i == Index(f[3], "://")
                      url == IF i >= 0 THEN From(f[3], i + 3) ELSE f[3]
                  IN  Root(url, TrimPrefix(TrimPrefix(module, f[1]), "/"), "", TRUE)
             ELSE goImport(Tail(metas), module)

\* a RepoRoot that takes the host and one more segment as the root
RepoRoot_TwoSegments(module, response) ==
    IF HasPrefix(module, "github.com/") \/ HasPrefix(module, "bitbucket.org/")
    THEN LET parts == Split(module, "/")
         IN  IF Len(parts) < 2 THEN Root("", "", "bad module name", FALSE)
             ELSE Root(Join(SubSeq(parts, 1, 2), "/"), Join(SubSeq(parts, 3, Len(parts)), "/"),
                       "", FALSE)
    ELSE IF response.status = "error" THEN Root("", "", "http.Get", TRUE)
    ELSE IF response.status = "bad html" THEN Root("", "", "xml.Decode", TRUE)
    ELSE goImport(response.metas, module)

\* RepoRoot(ctx, module), response being what the module's host would answer
RepoRoot(module, response) ==
    IF HasPrefix(module, "github.com/") \/ HasPrefix(module, "bitbucket.org/")
    THEN LET parts == Split(module, "/")
         IN  IF Len(parts) < 3 THEN Root("", "", "bad module name", FALSE)
             ELSE Root(Join(SubSeq(parts, 1, 3), "/"), Join(SubSeq(parts, 4, Len(parts)), "/"),
                       "", FALSE)
    ELSE IF response.status = "error" THEN Root("", "", "http.Get", TRUE)
    ELSE IF response.status = "bad html" THEN Root("", "", "xml.Decode", TRUE)
    ELSE goImport(response.metas, module)

(***************************************************************************)
(* SpecRepoRoot: one call of RepoRoot.                                     *)
(***************************************************************************)
Modules ==
    {"github.com/user/repo", "github.com/user/repo/sub/dir", "github.com/user/repo/",
     "github.com/user", "github.com/", "bitbucket.org/user/repo/sub", "bitbucket.org/user",
     "github.community/a/b/c", "HOST/foo/bar", "HOST/foo/bar/sub/dir", "HOST/foo"}

Metas ==
    {Meta("go-import", "HOST/foo/bar git https://example.com/foo/bar"),
     Meta("go-import", "  HOST/foo \t git\n ssh://git@example.com/foo "),
     Meta("go-import", "HOST/foo/bar mod example.com/proxy"),
     Meta("go-import", "HOST/foo/bar git"),
     Meta("go-import", "HOST/foo/bar git https://example.com/foo/bar extra"),
     Meta("go-source", "HOST/foo/bar https://example.com/foo/bar https://example.com/dir")}

Responses ==
    {Response("ok", metas) : metas \in SeqsUpTo(Metas, MaxMetas)}
        \cup {Response("error", <<>>), Response("bad html", <<>>)}

InitRepoRoot ==
    /\ arg \in {[op |-> "RepoRoot", module |-> module, response |-> response] :
                    module \in Modules, response \in Responses}
    /\ res = NotCalled
    /\ m = Memory(0)
    /\ ret = NoCall
    /\ inserted = [k \in {} |-> ZeroSnapshot]
    /\ uses = <<>>
    /\ stores = <<>>
    /\ req = <<>>
    /\ remote = <<>>
    /\ gateUnused /\ diskUnused

\* the caller cancels ctx while RepoRoot(ctx, module) has not returned: for a
\* host that is not well known, while its http.Get is in flight
ctxCancel ==
    /\ ~res.called
    /\ "canceled" \notin DOMAIN res
    /\ res' = [called |-> FALSE, canceled |-> TRUE]
    /\ UNCHANGED arg
    /\ UNCHANGED <<memVars, apiVars, gateVars, diskVars>>

\* RepoRoot(ctx, module) returns; http.Get is not given ctx, so it returns
\* what the host answered whether ctx was cancelled or not
RepoRootCall ==
    /\ ~res.called
    /\ LET r == RepoRoot(arg.module, arg.response)
       IN  res' = [called |-> TRUE, root |-> r.root, path |-> r.path, err |-> r.err,
                   get |-> r.get, canceled |-> "canceled" \in DOMAIN res]
    /\ UNCHANGED arg
    /\ UNCHANGED <<memVars, apiVars, gateVars, diskVars>>

NextRepoRoot == RepoRootCall \/ ctxCancel

SpecRepoRoot == InitRepoRoot /\ [][NextRepoRoot]_vars

\* the positions of the character c in s, from 1
positions(s, c) == {i \in 1 .. Len(s) : SubSeq(s, i, i) = c}

\* the position of the n-th c in s
nth(s, c, n) == CHOOSE i \in positions(s, c) : Cardinality({j \in positions(s, c) : j <= i}) = n

\* module starts with the name of a well-known host and a slash
wellKnown(module) ==
    \/ (Len(module) >= 11 /\ SubSeq(module, 1, 11) = "github.com/")
    \/ (Len(module) >= 14 /\ SubSeq(module, 1, 14) = "bitbucket.org/")

\* C18: for a module under github.com/ or bitbucket.org/, RepoRoot makes no
\* HTTP request; with three segments or more it returns the first three
\* segments as root and the rest as subPath, with fewer it fails with "bad
\* module name" and returns two empty strings.
C18_WellKnownHostRoot ==
    (res.called /\ wellKnown(arg.module)) =>
        LET module == arg.module
            slashes == Cardinality(positions(module, "/"))
        IN  /\ ~res.get
            /\ IF slashes < 2
               THEN res.err = "bad module name" /\ res.root = "" /\ res.path = ""
               ELSE IF slashes = 2
               THEN res.err = "" /\ res.root = module /\ res.path = ""
               ELSE /\ res.err = ""
                    /\ res.root = SubSeq(module, 1, nth(module, "/", 3) - 1)
                    /\ res.path = SubSeq(module, nth(module, "/", 3) + 1, Len(module))

\* github.com/user/repo/sub/dir gave (github.com/user/repo, sub/dir) although
\* the host would not have answered
C18_Witness ==
    /\ res.called
    /\ arg.module = "github.com/user/repo/sub/dir"
    /\ arg.response.status = "error"
    /\ res.root = "github.com/user/repo"
    /\ res.path = "sub/dir"
    /\ res.err = ""

\* the characters of white space in the contents of Metas
blank(text, i) == SubSeq(text, i, i) \in {" ", "\t", "\n"}

\* where a piece of text without white space starts
starts(text) == {i \in 1 .. Len(text) : ~blank(text, i) /\ (i = 1 \/ blank(text, i - 1))}

\* the piece of text that starts at i
pieceAt(text, i) ==
    SubSeq(text, i, CHOOSE j \in i .. Len(text) :
                        /\ \A k \in i .. j : ~blank(text, k)
                        /\ (j = Len(text) \/ blank(text, j + 1)))

\* the pieces of text if there are exactly three of them
threeFields(text) ==
    IF Cardinality(starts(text)) # 3 THEN {}
    ELSE {[n \in 1 .. 3 |->
              pieceAt(text, CHOOSE i \in starts(text) :
                                Cardinality({j \in starts(text) : j <= i}) = n)]}

\* the go-import elements of metas whose content has three fields
qualifying(metas) ==
    {j \in 1 .. Len(metas) : metas[j].name = "go-import" /\ threeFields(metas[j].content) # {}}

\* C19: for another module, RepoRoot takes the first go-import element with
\* three fields (prefix, vcs, url): root is url without its scheme and subPath
\* what follows prefix in module, without a leading slash; if there is none it
\* fails with "go-import meta tag not found" and two empty strings.
C19_MetaRoot ==
    (res.called /\ ~wellKnown(arg.module) /\ arg.response.status = "ok") =>
        LET module == arg.module
            q == qualifying(arg.response.metas)
        IN  IF q = {}
            THEN res.err = "go-import meta tag not found" /\ res.root = "" /\ res.path = ""
            ELSE LET first == CHOOSE j \in q : \A k \in q : j <= k
                     f == CHOOSE f \in threeFields(arg.response.metas[first].content) : TRUE
                     url == f[3]
                     scheme == {i \in 1 .. Len(url) : i + 2 <= Len(url) /\ SubSeq(url, i, i + 2) = "://"}
                     after == IF Len(module) >= Len(f[1]) /\ SubSeq(module, 1, Len(f[1])) = f[1]
                              THEN SubSeq(module, Len(f[1]) + 1, Len(module))
                              ELSE module
                 IN  /\ res.err = ""
                     /\ res.root = IF scheme = {} THEN url
                                   ELSE SubSeq(url, 3 + (CHOOSE i \in scheme : \A k \in scheme : i <= k),
                                               Len(url))
                     /\ res.path = IF after # "" /\ SubSeq(after, 1, 1) = "/"
                                   THEN SubSeq(after, 2, Len(after)) ELSE after

\* S6: the page has a go-import element with two fields and then the one for
\* HOST/foo/bar; HOST/foo/bar/sub/dir gave (example.com/foo/bar, sub/dir)
C19_Witness ==
    /\ res.called
    /\ arg.module = "HOST/foo/bar/sub/dir"
    /\ arg.response = Response("ok", <<Meta("go-import", "HOST/foo/bar git"),
                                        Meta("go-import", "HOST/foo/bar git https://example.com/foo/bar")>>)
    /\ res.root = "example.com/foo/bar"
    /\ res.path = "sub/dir"
    /\ res.err = ""

(***************************************************************************)
(* gitVCS.Zip: the archive built from the tree of a commit.                *)
(***************************************************************************)
MaxFiles == 4

\* strings.LastIndex
LastIndex(s, substr) ==
    LET at == {i \in 0 .. (Len(s) - Len(substr)) : SubSeq(s, i + 1, i + Len(substr)) = substr}
    IN  IF at = {} THEN -1 ELSE CHOOSE i \in at : \A j \in at : i >= j

\* path.Split: the directory with its final slash, and the file
path_Split(name) ==
    LET i == LastIndex(name, "/")
    IN  [dir |-> Upto(name, i + 1), file |-> From(name, i + 1)]

\* isVendoredPackage
isVendoredPackage(name) ==
    IF HasPrefix(name, "vendor/")
    THEN Contains(From(name, Len("vendor/")), "/")
    ELSE IF Index(name, "/vendor/") >= 0
    THEN Contains(From(name, Len("/vendor/")), "/")
    ELSE FALSE

\* a file of the tree: its name from the root of the repository, its mode and
\* its contents
File(name, mode, data) == [name |-> name, mode |-> mode, data |-> data]

\* modulesOf, had Zip never recorded a directory that holds a go.mod
modulesOf_Empty(files) == {}

\* the map modules of Zip: the directories that hold a go.mod
modulesOf(files) ==
    {path_Split(files[j].name).dir : j \in {j \in 1 .. Len(files) :
                                                path_Split(files[j].name).file = "go.mod"}}

\* the closure submodule of Zip
RECURSIVE submodule(_, _, _)
submodule(name, prefix, modules) ==
    LET d == path_Split(name).dir
    IN  IF Len(d) <= Len(prefix) THEN FALSE
        ELSE IF d \in modules THEN TRUE
        ELSE submodule(Upto(d, Len(d) - 1), prefix, modules)

\* an entry of the archive: its name, its contents, and the file it is from
Entry(name, data, from) == [name |-> name, data |-> data, from |-> from]

\* IsRegular, had Zip not skipped the files that are not regular
IsRegular_Any(mode) == TRUE

\* FileMode.ToOSFileMode followed by IsRegular
IsRegular(mode) == mode \in {"regular", "executable"}

\* the loop over files in Zip; it stops at a file whose mode is malformed
RECURSIVE zipFiles(_, _, _, _, _)
zipFiles(files, prefix, modules, root, entries) ==
    IF files = <<>> THEN [entries |-> entries, err |-> ""]
    ELSE LET f == Head(files)
             rest == Tail(files)
         IN  IF isVendoredPackage(f.name) THEN zipFiles(rest, prefix, modules, root, entries)
             ELSE IF submodule(f.name, prefix, modules)
             THEN zipFiles(rest, prefix, modules, root, entries)
             ELSE IF f.mode = "malformed" THEN [entries |-> <<>>, err |-> "malformed mode"]
             ELSE IF ~IsRegular(f.mode) THEN zipFiles(rest, prefix, modules, root, entries)
             ELSE IF ~HasPrefix(f.name, prefix) THEN zipFiles(rest, prefix, modules, root, entries)
             ELSE zipFiles(rest, prefix, modules, root,
                           Append(entries, Entry(root \o "/" \o TrimPrefix(f.name, prefix),
                                                 f.data, f.name)))

\* gitVCS.Zip, had it walked the files in an order that is not the same in
\* every run (as a range over a map is): here reversed in a repeated run
gitVCS_Zip_RunOrder(files, subPath, module, version) ==
    LET prefix == IF subPath # "" THEN subPath \o "/" ELSE ""
        walk == IF res.called THEN [j \in 1 .. Len(files) |-> files[Len(files) + 1 - j]]
                ELSE files
    IN  zipFiles(walk, prefix, modulesOf(files), module \o "@" \o version, <<>>)

\* gitVCS.Zip from the tree of the commit on; subPath is g.prefix
gitVCS_Zip(files, subPath, module, version) ==
    LET prefix == IF subPath # "" THEN subPath \o "/" ELSE ""
    IN  zipFiles(files, prefix, modulesOf(files), module \o "@" \o version, <<>>)

\* what api.mod writes: the bytes of a file of the archive, or a text it made
Mod(kind, body, text) == [kind |-> kind, body |-> body, text |-> text]

\* an api.mod that never looks into the archive
api_mod_Synthetic(entries, err, module, version) ==
    Mod("synthetic", <<>>, "module " \o module \o "\n")

\* api.mod, api.module having returned the archive entries, or failed with err
api_mod(entries, err, module, version) ==
    LET name == module \o "@" \o version \o "/" \o "go.mod"
        found == {e \in 1 .. Len(entries) : entries[e].name = name}
    IN  IF err = "" /\ found # {}
        THEN Mod("file", entries[CHOOSE e \in found : \A x \in found : e <= x].data, "")
        ELSE Mod("synthetic", <<>>, "module " \o module \o "\n")

(***************************************************************************)
(* SpecZip: one call of gitVCS.Zip on a tree.                              *)
(***************************************************************************)
\* the files a tree may have, in the order the tree is walked
TreeFiles ==
    <<File("a.go", "regular", <<0>>),
      File("go.mod", "regular", <<0>>),
      File("link", "symlink", <<0>>),
      File("main.go", "regular", <<0, 0>>),
      File("pkg/vendor/bar/b.go", "regular", <<0>>),
      File("pkg/vendor/y.go", "regular", <<0>>),
      File("sub/a.go", "executable", <<0>>),
      File("sub/b.go", "regular", <<0, 0>>),
      File("sub/deep/b.go", "regular", <<0>>),
      File("sub/deep/go.mod", "regular", <<0>>),
      File("sub/go.mod", "regular", <<0, 0>>),
      File("sub/vendor/foo/a.go", "regular", <<0>>),
      File("vendor/foo/a.go", "regular", <<0>>),
      File("vendor/x.go", "regular", <<0>>),
      File("vendor_dir/c.go", "regular", <<0>>),
      File("weird", "malformed", <<>>)>>

\* the elements of s whose positions are in the set of positions keep
Pick(s, keep) == SelectSeq([j \in 1 .. Len(s) |-> <<j, s[j]>>], LAMBDA x : x[1] \in keep)

\* the trees: up to MaxFiles of the files
Trees ==
    {[j \in 1 .. Len(Pick(TreeFiles, keep)) |-> Pick(TreeFiles, keep)[j][2]] :
        keep \in {k \in SUBSET (1 .. Len(TreeFiles)) : Cardinality(k) <= MaxFiles}}

InitZip ==
    /\ arg \in {[op |-> "Zip", tree |-> tree, subPath |-> subPath,
                 module |-> IF subPath = "" THEN "github.com/user/repo"
                            ELSE "github.com/user/repo/" \o subPath,
                 version |-> "v1.0.0"] : tree \in Trees, subPath \in {"", "sub"}}
    /\ res = NotCalled
    /\ m = Memory(0)
    /\ ret = NoCall
    /\ inserted = [k \in {} |-> ZeroSnapshot]
    /\ uses = <<>>
    /\ stores = <<>>
    /\ req = <<>>
    /\ remote = <<>>
    /\ gateUnused /\ diskUnused

\* g.Zip(ctx, version)
ZipCall ==
    /\ ~res.called
    /\ LET z == gitVCS_Zip(arg.tree, arg.subPath, arg.module, arg.version)
       IN  res' = [called |-> TRUE, entries |-> z.entries, err |-> z.err]
    /\ UNCHANGED arg
    /\ UNCHANGED <<memVars, apiVars, gateVars, diskVars>>

\* g.Zip(ctx, version) once more, for the same commit
ZipAgain ==
    /\ res.called
    /\ "again" \notin DOMAIN res
    /\ "mod" \notin DOMAIN res
    /\ LET z == gitVCS_Zip(arg.tree, arg.subPath, arg.module, arg.version)
       IN  res' = [called |-> TRUE, entries |-> res.entries, err |-> res.err,
                   again |-> [entries |-> z.entries, err |-> z.err]]
    /\ UNCHANGED arg
    /\ UNCHANGED <<memVars, apiVars, gateVars, diskVars>>

\* a .mod request for the module version, served from the archive of Zip
ModCall ==
    /\ res.called
    /\ "again" \notin DOMAIN res
    /\ "mod" \notin DOMAIN res
    /\ res' = [called |-> TRUE, entries |-> res.entries, err |-> res.err,
               mod |-> api_mod(res.entries, res.err, arg.module, arg.version)]
    /\ UNCHANGED arg
    /\ UNCHANGED <<memVars, apiVars, gateVars, diskVars>>

NextZip == ZipCall \/ ZipAgain \/ ModCall

SpecZip == InitZip /\ [][NextZip]_vars

\* the segments of a file name
segments(name) == [k \in 1 .. Cardinality(positions(name, "/")) + 1 |->
                      SubSeq(name,
                             IF k = 1 THEN 1 ELSE nth(name, "/", k - 1) + 1,
                             IF k = Cardinality(positions(name, "/")) + 1 THEN Len(name)
                             ELSE nth(name, "/", k) - 1)]

\* name has a segment vendor followed by at least one further segment
underVendor(name) == \E k \in 1 .. (Len(segments(name)) - 1) : segments(name)[k] = "vendor"

\* C20: the archive has no entry from a file whose name has a segment vendor
\* followed by at least one further segment, and it keeps the regular files
\* of the module that only have "vendor" inside a longer segment.
C20_VendorStripped ==
    (res.called /\ res.err = "") =>
        \A j \in 1 .. Len(arg.tree) :
            LET f == arg.tree[j]
                from == {e \in 1 .. Len(res.entries) : res.entries[e].from = f.name}
            IN  /\ underVendor(f.name) => from = {}
                /\ ( /\ arg.subPath = ""
                     /\ f.name = "vendor_dir/c.go" ) => from # {}

\* the entries of the archive that are from the file f of the tree
entriesFrom(f) == {e \in 1 .. Len(res.entries) : res.entries[e].from = f.name}

\* P: the directory prefix of the module in the repository
P == IF arg.subPath = "" THEN "" ELSE arg.subPath \o "/"

\* C21: every entry of the archive is named <module>@<version>/<rel> where
\* P followed by rel is the path of a regular file of the tree with the
\* contents of the entry, and no entry is from a file outside P or from a
\* file that is not regular.
C21_EntryNaming ==
    (res.called /\ res.err = "") =>
        LET root == arg.module \o "@" \o arg.version \o "/"
        IN  /\ \A e \in 1 .. Len(res.entries) :
                   /\ HasPrefix(res.entries[e].name, root)
                   /\ \E j \in 1 .. Len(arg.tree) :
                          /\ arg.tree[j].name = P \o From(res.entries[e].name, Len(root))
                          /\ arg.tree[j].name = res.entries[e].from
                          /\ arg.tree[j].mode \in {"regular", "executable"}
                          /\ arg.tree[j].data = res.entries[e].data
            /\ \A j \in 1 .. Len(arg.tree) :
                   (~HasPrefix(arg.tree[j].name, P) \/ arg.tree[j].mode = "symlink")
                       => entriesFrom(arg.tree[j]) = {}

\* a symlink, a file outside the module and an executable file of the
\* module: only the last is in the archive, named from the module's directory
C21_Witness ==
    /\ res.called
    /\ res.err = ""
    /\ arg.subPath = "sub"
    /\ arg.tree = <<File("link", "symlink", <<0>>), File("main.go", "regular", <<0, 0>>),
                    File("sub/a.go", "executable", <<0>>)>>
    /\ res.entries = <<Entry("github.com/user/repo/sub@v1.0.0/a.go", <<0>>, "sub/a.go")>>

\* the directories on the chain of name, each with its final slash
chainDirs(name) == {Upto(name, i) : i \in positions(name, "/")}

\* some directory on the chain of f strictly below P holds a go.mod
nested(f) ==
    \E d \in chainDirs(f.name) :
        /\ HasPrefix(d, P)
        /\ Len(d) > Len(P)
        /\ \E j \in 1 .. Len(arg.tree) : arg.tree[j].name = d \o "go.mod"

\* C22: no entry is from a file that has, on its chain of directories strictly
\* below P, a directory holding a go.mod; the regular files directly in P,
\* its own go.mod included, each have an entry.
C22_NestedModulesPruned ==
    (res.called /\ res.err = "") =>
        \A j \in 1 .. Len(arg.tree) :
            LET f == arg.tree[j]
            IN  /\ nested(f) => entriesFrom(f) = {}
                /\ ( /\ HasPrefix(f.name, P)
                     /\ ~Contains(From(f.name, Len(P)), "/")
                     /\ f.mode \in {"regular", "executable"} ) => entriesFrom(f) # {}

\* the tree go.mod, a.go, sub/go.mod, sub/b.go with P empty: the archive is
\* a.go and go.mod
C22_Witness ==
    /\ res.called
    /\ res.err = ""
    /\ arg.subPath = ""
    /\ {arg.tree[j].name : j \in 1 .. Len(arg.tree)} = {"go.mod", "a.go", "sub/go.mod", "sub/b.go"}
    /\ {res.entries[e].name : e \in 1 .. Len(res.entries)}
           = {"github.com/user/repo@v1.0.0/go.mod", "github.com/user/repo@v1.0.0/a.go"}

dashes(v) == Cardinality(positions(v, "-"))

\* C24 as stated: Hash(v) is not empty exactly when v has two "-", IsSemVer(v)
\* and a Hash(v) that is not empty never hold together, and the empty string
\* has neither.
C24_HashIffTwoDashes ==
    (arg.op = "Version" /\ res.called) =>
        /\ res.hash # "" <=> dashes(arg.version) = 2
        /\ ~(res.semver /\ res.hash # "")
        /\ arg.version = "" => (~res.semver /\ res.hash = "")

\* C24: Hash(v) is not empty exactly when v has two "-" and does not end with
\* the second; IsSemVer(v) and a Hash(v) that is not empty never hold
\* together, and the empty string has neither.
C24_HashIffThirdField ==
    (arg.op = "Version" /\ res.called) =>
        /\ res.hash # "" <=> (dashes(arg.version) = 2 /\ ~HasSuffix(arg.version, "-"))
        /\ ~(res.semver /\ res.hash # "")
        /\ arg.version = "" => (~res.semver /\ res.hash = "")

\* a version with two "-" and nothing after the second has the empty Hash
C24_Witness ==
    /\ arg.op = "Version" /\ res.called
    /\ arg.version = "v1.0.0-abc-"
    /\ res.hash = ""
    /\ ~res.semver

\* C30 as stated: for every version v, commit for v+"+incompatible" returns
\* the commit, or the failure, that commit for v returns.
C30_IncompatibleStripped ==
    (arg.op = "commit" /\ "inc" \in DOMAIN res) =>
        res.inc = [ci |-> res.ci, err |-> res.err]

\* C30: for every version v that does not itself end with "+incompatible",
\* commit for v+"+incompatible" returns the commit, or the failure, that
\* commit for v returns.
C30_IncompatibleStrippedOnce ==
    (arg.op = "commit" /\ "inc" \in DOMAIN res /\ ~HasSuffix(arg.version, "+incompatible")) =>
        res.inc = [ci |-> res.ci, err |-> res.err]

\* v1.0.0 is tagged: commit for v1.0.0+incompatible returned the commit of
\* the tag, as commit for v1.0.0 did
C30_Witness ==
    /\ arg.op = "commit" /\ "inc" \in DOMAIN res
    /\ arg.version = "v1.0.0"
    /\ \E j \in 1 .. Len(arg.refs) : arg.refs[j] = Ref("refs/tags/v1.0.0", HashA)
    /\ res.err = ""
    /\ res.inc.err = ""
    /\ res.inc.ci.hash = HashA

\* request r is handled by api.list in this step
listStep(r) == req[r].pc \in {"idle", "done"} /\ req'[r].pc = "done" /\ req'[r] # req[r]

\* C25: handling a list request makes one call, List of the VCS, and no Get
\* or Put of a store, and leaves every store as it was.
C25_ListNotCached ==
    [][\A r \in Requests :
           listStep(r) =>
               /\ stores' = stores
               /\ Len(req'[r].calls) = 1
               /\ req'[r].calls[1].call = "List"]_vars

\* both stores hold foo@v1.0.0 from an earlier request, and a list request
\* for foo has asked the VCS, which by now has nothing
C25_Witness ==
    /\ Len(stores) = 2
    /\ \A i \in 1 .. 2 : content(stores[i], "foo", "v1.0.0") # <<>>
    /\ req[1].pc = "done"
    /\ req[1].module = "foo"
    /\ Len(req[1].calls) = 1
    /\ req[1].calls[1].call = "List"
    /\ req[1].out.err

\* the positions in the tree of a regular go.mod directly in P
rootGoMod == {j \in 1 .. Len(arg.tree) : /\ arg.tree[j].name = P \o "go.mod"
                                         /\ arg.tree[j].mode \in {"regular", "executable"}}

delStep(w) ==
    /\ put'[w].pc = "deleted"
    /\ <<put'[w].pc, put'[w].snapshot, put'[w].err>> # <<put[w].pc, put[w].snapshot, put[w].err>>

\* C27: a Del that finds the .time or the .zip file of the key absent returns
\* an error; a Del that returns no error has removed both files, and a Get
\* for the key then misses.
C27_DelRemovesBoth ==
    [][\A w \in Writers :
           delStep(w) =>
               LET timeFile == Key(put'[w].snapshot) \o ".time"
                   zipFile == Key(put'[w].snapshot) \o ".zip"
               IN  /\ (timeFile \notin DOMAIN dir \/ zipFile \notin DOMAIN dir) => put'[w].err
                   /\ ~put'[w].err =>
                          /\ timeFile \in DOMAIN dir /\ zipFile \in DOMAIN dir
                          /\ timeFile \notin DOMAIN dir' /\ zipFile \notin DOMAIN dir'
                          /\ disk_Get(dir', put'[w].snapshot.Module,
                                      put'[w].snapshot.Version).err]_vars

\* writer 1 put an entry and writer 2 deleted it: no file is left
C27_Witness ==
    /\ put[1].pc = "done" /\ ~put[1].err
    /\ put[2].pc = "deleted" /\ ~put[2].err
    /\ pair(put[2].snapshot) = pair(put[1].snapshot)
    /\ dir = NoFiles

\* C28: a RepoRoot whose context was cancelled while its HTTPS GET was in
\* flight does not use the answer of the host: it returns the error of the
\* cancelled context.
C28_CanceledGetAborted ==
    (res.called /\ res.get /\ res.canceled) => res.err = "context canceled"

\* the directory gitVCS.repo opens, or initialises if it is not there, for a
\* module: <gitdir>/<root>; each module of ApiKeys is a repository of its own
repoDir(module) == "gitdir/" \o module

\* C29: no two requests are at the same time in calls of the VCS, each of
\* which is repo() followed by FetchContext, on the same directory
\* <gitdir>/<root>.
C29_SameRootSerialized ==
    \A r, q \in GateRequests :
        ( /\ r # q
          /\ req[r].pc \in {"timestamp", "zip"}
          /\ req[q].pc \in {"timestamp", "zip"} ) =>
            repoDir(req[r].module) # repoDir(req[q].module)

\* C31: every Put returns nil; a Put of a key not held whose data is longer
\* than a limit >= 0 ends with the list empty and the size 0, the eviction
\* loop having removed every item, the new one included.
C31_OutsizedPutEmptiesList ==
    [][ret'.op = "Put" =>
           /\ ~ret'.err
           /\ ( /\ pair(ret'.arg) \notin held(m)
                /\ m.limit >= 0
                /\ Len(ret'.arg.Data) > m.limit ) =>
                  /\ m'.head = NIL /\ m'.tail = NIL
                  /\ m'.size = 0
                  /\ DOMAIN m'.items = {}]_vars

\* a store of limit 1 that held an item was put two bytes under another key:
\* it is empty
C31_Witness ==
    /\ m.limit = 1
    /\ ret.op = "Put"
    /\ ~ret.err
    /\ ret.head # NIL
    /\ Len(ret.arg.Data) = 2
    /\ m.head = NIL
    /\ m.size = 0

\* C32: every item is on the chain from head, tail is the last item of the
\* chain, head.prev and tail.next are nil, n.next.prev = n for every item
\* but the tail, and no two items have the same (module, version).
C32_ListStructure ==
    LET l == nodes(m)
    IN  /\ Range(l) = DOMAIN m.items
        /\ \A i, j \in 1 .. Len(l) : i # j => l[i] # l[j]
        /\ IF l = <<>>
           THEN m.head = NIL /\ m.tail = NIL
           ELSE /\ m.tail = l[Len(l)]
                /\ m.items[m.head].prev = NIL
                /\ m.items[m.tail].next = NIL
        /\ \A i \in 1 .. (Len(l) - 1) : m.items[m.items[l[i]].next].prev = l[i]
        /\ \A i, j \in 1 .. Len(l) : i # j => pair(m.items[l[i]]) # pair(m.items[l[j]])

\* three items, and a Get has just moved one that was not the head in front
\* of the former head
C32_Witness ==
    /\ Len(nodes(m)) = 3
    /\ ret.op = "Get"
    /\ ~ret.err
    /\ pair(ret.arg) = pair(m.items[m.head])
    /\ ret.head # m.head
    /\ m.items[m.head].next = ret.head
    /\ m.items[ret.head].prev = m.head

\* C33: in no state of a store can a Put or a Get run evict on an empty list,
\* or read through a nil head, tail or prev pointer in update or evict.
C33_NoNilDereference ==
    /\ \A snapshot \in Snapshots : ~putNil(m, snapshot)
    /\ \A k \in Keys : ~lookupNil(m, k[1], k[2])

\* a store of limit 2 that held items was put two bytes under a key it did
\* not hold: it evicted every older item and kept the new one
C33_Witness ==
    /\ m.limit = 2
    /\ ret.op = "Put"
    /\ Len(ret.arg.Data) = 2
    /\ ret.head # NIL
    /\ Len(nodes(m)) = 1
    /\ pair(m.items[m.head]) = pair(ret.arg)
    /\ m.size = 2

\* C34: a Get that misses leaves every store as it was; a request served by
\* a hit in a store after the first ends there with no Put made, the stores
\* asked before it are as they were, and a Get of the same key still misses
\* in each of them.
C34_NoPromotion ==
    [][\A r \in Requests :
          LET cs == req'[r].calls
              j == Len(cs)
          IN  (cs # req[r].calls /\ j >= 1 /\ cs[j].call = "Get") =>
                  /\ cs[j].err => stores' = stores
                  /\ (~cs[j].err /\ cs[j].store >= 2) =>
                         /\ req'[r].pc = "done"
                         /\ callsOf(cs, "Put") = <<>>
                         /\ \A h \in 1 .. (cs[j].store - 1) :
                                /\ stores'[h] = stores[h]
                                /\ Store_Get(stores'[h], req'[r].module,
                                             req'[r].version).err]_vars

\* two requests in a row for the same key got the same archive; the second
\* missed in the first store, hit in the second and made no other call
C34_Witness ==
    \E r \in Requests :
        /\ Len(stores) = 2
        /\ req[r].pc = "done"
        /\ req[r].prev.module = req[r].module
        /\ req[r].prev.version = req[r].version
        /\ ~req[r].prev.out.err
        /\ req[r].prev.out = req[r].out
        /\ Len(req[r].calls) = 2
        /\ req[r].calls[1] = Call("Get", 1, TRUE, ZeroTime, <<>>)
        /\ req[r].calls[2].call = "Get" /\ ~req[r].calls[2].err
        /\ content(stores[1], req[r].module, req[r].version) = <<>>

\* C37: what a request that fetched from the VCS returns, and the snapshot
\* it hands to every Put, have the time and the archive of one and the same
\* commit, also when the remote moves the version between the call of
\* Timestamp and the call of Zip.
C37_SnapshotOfOneCommit ==
    \A r \in Requests :
        LET puts == callsOf(req[r].calls, "Put")
        IN  /\ (req[r].pc = "done" /\ fetched(r)) =>
                   \E c \in Commits : req[r].out = Return(c.data, c.time, FALSE)
            /\ \A j \in 1 .. Len(puts) :
                   \E c \in Commits : /\ puts[j].timestamp = c.time
                                      /\ puts[j].data = c.data

\* C38: a request whose Timestamp, Zip or read of the archive fails ends at
\* once with that error and no data, makes no Put and leaves every store as
\* it was; no Zip is called after a Timestamp that failed.
C38_FailedFetchStoresNothing ==
    [][\A r \in Requests :
          LET cs == req'[r].calls
              j == Len(cs)
          IN  ( /\ req[r].pc \in {"timestamp", "zip"}
                /\ cs # req[r].calls
                /\ cs[j].call \in {"Timestamp", "Zip", "Copy"}
                /\ cs[j].err ) =>
                  /\ req'[r].pc = "done"
                  /\ req'[r].out = Return(<<>>, ZeroTime, TRUE)
                  /\ callsOf(cs, "Put") = <<>>
                  /\ stores' = stores
                  /\ \A h \in 1 .. (j - 1) : cs[h].call \in {"Get", "Timestamp", "Zip"}
                  /\ cs[j].call = "Timestamp" => callsOf(cs, "Zip") = <<>>
                  /\ \A h \in 1 .. (j - 1) : cs[h].call = "Timestamp" => ~cs[h].err]_vars

\* with two stores that missed, Timestamp and Zip succeeded and the read of
\* the archive failed: the request returned the error and both stores hold
\* nothing for the key
C38_Witness ==
    \E r \in Requests :
        /\ Len(stores) = 2
        /\ req[r].pc = "done"
        /\ req[r].out = Return(<<>>, ZeroTime, TRUE)
        /\ Len(req[r].calls) = 5
        /\ req[r].calls[3].call = "Timestamp" /\ ~req[r].calls[3].err
        /\ req[r].calls[4].call = "Zip" /\ ~req[r].calls[4].err
        /\ req[r].calls[5].call = "Copy" /\ req[r].calls[5].err
        /\ \A i \in 1 .. 2 : content(stores[i], req[r].module, req[r].version) = <<>>

\* the commit a reference targets: the target of the annotated tag object it
\* points to, or the commit it points to
targetOf(ref) ==
    LET annotated == {o \in RepoTagObjects : o.hash = ref.hash}
    IN  IF annotated # {} THEN (CHOOSE o \in annotated : TRUE).target ELSE ref.hash

\* C35: every version List returned, for a module at the root of the
\* repository or in a directory of it, is resolved by commit to the commit
\* targeted by the reference that List made the version from: its tag, or
\* master for the pseudo-version.
C35_ListedVersionsResolve ==
    (arg.op = "List" /\ res.called /\ "commits" \in DOMAIN res /\ res.err = "") =>
        LET tags == surviving(arg.refs, arg.prefix)
            from == IF tags # <<>> THEN tags
                    ELSE <<arg.refs[CHOOSE j \in masters(arg.refs) : TRUE]>>
        IN  \A j \in 1 .. Len(res.list) :
                /\ res.commits[j].err = ""
                /\ res.commits[j].ci.hash = targetOf(from[j])

\* C36: commit fails for a version that, without "+incompatible", is not
\* SemVer and has an empty Hash.
C36_NoHashNoCommit ==
    (arg.op = "commit" /\ res.called) =>
        LET version == TrimSuffix(arg.version, "+incompatible")
        IN  (~IsSemVer(version) /\ Hash(version) = "") => res.err # ""

====
